---- MODULE Spec2Model ----
(***************************************************************************)
(* A model of the macrometric backend: registration with default meal      *)
(* categories, category CRUD and reorder, the food diary, custom foods and *)
(* custom meals.  The relational tables are functions from row id to row;  *)
(* every request handler is one action that runs the API function and the  *)
(* service method it calls up to the commit.                               *)
(*                                                                         *)
(* Numbers.  Request quantities are decimal literals given in thousandths  *)
(* (1500 is 1.5); stored quantities and the macro columns are NUMERIC(x,2) *)
(* and are kept in hundredths; products of two such columns are kept in    *)
(* ten-thousandths.  Calories are integers.                                *)
(***************************************************************************)
EXTENDS Integers, Sequences, FiniteSets, TLC

\* ---------------------------------------------------------------- bounds

\* Row ids are fresh UUIDs: each table numbers its rows from a counter of its
\* own (custom_foods and food_items, which one food_id can name, share one).
\* Beside registrations, no more than MaxCreates requests create rows.
MaxCreates == 4

\* diary.py validate_entry_date: date.today() + timedelta(days=365)
MaxFutureDays == 365

\* The clock stops after MaxTime units.
MaxTime == 1

Users == {"u1", "u2"}

\* The absent value of an Optional request field is <<>>, a present one <<v>>.
None == <<>>
Some(v) == <<v>>
Optional(S) == {None} \cup {Some(v) : v \in S}

VARIABLES
    users,          \* registered users (the users table, keyed by e-mail)
    categories,     \* meal_categories: id -> row
    diary_entries,  \* diary_entries:   id -> row
    food_items,     \* food_items:      id -> row
    custom_foods,   \* custom_foods:    id -> row
    custom_meals,   \* custom_meals with their custom_meal_items: id -> row
    nextId,         \* rows created so far per id counter, and the requests
                    \* that created them
    daily_goals,    \* daily_goals: user -> row (user_id is unique)
    cache,          \* FoodSearchService._cache: key -> (results, time)
    now,            \* the clock, in units of the cache's time to live
    tokens,         \* the tokens the server has signed and handed out
    pending,        \* the requests in flight: what each has read, and its step
    last            \* the response to the request just handled

vars == <<users, categories, diary_entries, food_items, custom_foods,
          custom_meals, nextId, daily_goals, cache, now, tokens, pending,
          last>>

\* ------------------------------------------------------------- responses

\* The shape of `last`: the handler that ran, the caller, and the outcome
\* (Ok, or the error the handler raised).
Response(op, u, status) == [op |-> op, user |-> u, status |-> status]

NoRequest == Response("none", "", "Ok")

\* base.py id = Column(UUID, default=uuid.uuid4): the n-th id of a counter.
CategoryId(n) == 100 + n
EntryId(n) == 200 + n
FoodId(n) == 300 + n
MealId(n) == 400 + n

\* auth.py _create_default_categories: the (name, order) pairs, in order.
default_categories == << <<"Breakfast", 1>>, <<"Lunch", 2>>, <<"Dinner", 3>> >>

\* Whether one more request can create rows.
CanCreate == nextId.requests < MaxCreates

\* A table without the row `id`.
Without(table, id) == [i \in DOMAIN table \ {id} |-> table[i]]

RECURSIVE SetMax(_)
SetMax(S) ==
    IF S = {} THEN 0
    ELSE LET x == CHOOSE y \in S : TRUE
             m == SetMax(S \ {x})
         IN  IF x > m THEN x ELSE m

\* ------------------------------------------------------------------ init

Init ==
    /\ users = {}
    /\ categories = <<>>
    /\ diary_entries = <<>>
    /\ food_items = <<>>
    /\ custom_foods = <<>>
    /\ custom_meals = <<>>
    /\ nextId = [category |-> 0, entry |-> 0, food |-> 0, meal |-> 0,
                 requests |-> 0]
    /\ daily_goals = <<>>
    /\ cache = <<>>
    /\ now = 0
    /\ tokens = {}
    /\ pending = {}
    /\ last = NoRequest

\* ---------------------------------------------------------- registration

DefaultCategoryRows(u, first) ==
    [i \in first .. first + Len(default_categories) - 1 |->
        [user_id |-> u,
         name |-> default_categories[i - first + 1][1],
         display_order |-> default_categories[i - first + 1][2],
         is_default |-> TRUE]]

\* config.py ACCESS_TOKEN_EXPIRE_MINUTES = 15 and REFRESH_TOKEN_EXPIRE_DAYS = 7,
\* in units of the clock (a quarter of an hour).
ACCESS_TOKEN_EXPIRE == 1
REFRESH_TOKEN_EXPIRE == 672

\* security.py create_access_token, create_refresh_token: a signed token is
\* its payload; nobody but the server can make one.
create_access_token(subject) ==
    [sub |-> subject, exp |-> now + ACCESS_TOKEN_EXPIRE, type |-> "access"]
create_refresh_token(subject) ==
    [sub |-> subject, exp |-> now + REFRESH_TOKEN_EXPIRE, type |-> "refresh"]

\* auth.py register: an e-mail already registered is a Conflict; otherwise the
\* user row is committed and then the three default categories, and the
\* response carries an access token and a refresh token.
Register(u) ==
    IF u \in users
    THEN /\ last' = Response("register", u, "Conflict")
         /\ UNCHANGED <<pending, tokens, daily_goals, cache, now, users, categories, diary_entries, food_items,
                        custom_foods, custom_meals, nextId>>
    ELSE /\ users' = users \cup {u}
         /\ categories' = categories
                @@ DefaultCategoryRows(u, CategoryId(nextId.category + 1))
         /\ nextId' = [nextId EXCEPT !.category = @ + Len(default_categories)]
         /\ tokens' = tokens \cup {create_access_token(u),
                                    create_refresh_token(u)}
         /\ last' = Response("register", u, "Ok")
         /\ UNCHANGED <<pending, daily_goals, cache, now, diary_entries, food_items,
                        custom_foods, custom_meals>>

\* ------------------------------------------------------------ categories

\* category.py get_categories: the caller's category ids.
UserCategoryIds(u) == {c \in DOMAIN categories : categories[c].user_id = u}

\* category.py get_category: the row with this id that belongs to the caller.
GetCategory(u, cid) == cid \in DOMAIN categories /\ categories[cid].user_id = u

\* api/categories.py: data.name.strip(), on the names the requests carry.
Strip(name) ==
    CASE name = "Snack " -> "Snack"
      [] name = " " -> ""
      [] OTHER -> name

\* A duplicate query that compares names without regard to letter case, which
\* the code does not do.
Lower(name) == IF name = "Snack" THEN "snack" ELSE name

NameExistsIgnoringCase(u, name) ==
    \E c \in UserCategoryIds(u) : Lower(categories[c].name) = Lower(name)

\* category.py create_category, the duplicate query: a row of the caller whose
\* name equals `name` (the column comparison is case-sensitive).
NameExists(u, name) ==
    \E c \in UserCategoryIds(u) : categories[c].name = name

\* category.py update_category, the duplicate query: as above, excluding the
\* row being renamed.
NameExistsElsewhere(u, name, cid) ==
    \E c \in UserCategoryIds(u) : c # cid /\ categories[c].name = name

\* category.py create_category: the order of a new category when none is given.
NextDisplayOrder(u) ==
    IF UserCategoryIds(u) = {} THEN 1
    ELSE SetMax({categories[c].display_order : c \in UserCategoryIds(u)}) + 1

\* api/categories.py create_category and category.py create_category.
CreateCategory(u, rawName, order) ==
    /\ u \in users
    /\ LET name == Strip(rawName) IN
       IF rawName = ""
       THEN /\ last' = Response("create_category", u, "InvalidInput")
            /\ UNCHANGED <<categories, nextId>>
       ELSE IF NameExists(u, name)
       THEN /\ last' = Response("create_category", u, "Conflict")
            /\ UNCHANGED <<categories, nextId>>
       ELSE /\ CanCreate
            /\ categories' = categories @@
                 (CategoryId(nextId.category + 1) :>
                            [user_id |-> u,
                             name |-> name,
                             display_order |->
                                 IF order = None THEN NextDisplayOrder(u)
                                 ELSE order[1],
                             is_default |-> FALSE])
            /\ nextId' = [nextId EXCEPT !.category = @ + 1, !.requests = @ + 1]
            /\ last' = Response("create_category", u, "Ok")
    /\ UNCHANGED <<pending, tokens, daily_goals, cache, now, users, diary_entries, food_items, custom_foods, custom_meals>>

\* api/categories.py update_category and category.py update_category.
\* rawName and order are Optional.
UpdateCategory(u, cid, rawName, order) ==
    /\ u \in users
    /\ LET name == IF rawName = None THEN None ELSE Some(Strip(rawName[1])) IN
       IF ~GetCategory(u, cid)
       THEN /\ last' = Response("update_category", u, "NotFound")
            /\ UNCHANGED categories
       ELSE IF /\ name # None
               /\ name[1] # categories[cid].name
               /\ NameExistsElsewhere(u, name[1], cid)
       THEN /\ last' = Response("update_category", u, "Conflict")
            /\ UNCHANGED categories
       ELSE /\ categories' =
                 [categories EXCEPT
                     ![cid].name = IF name # None THEN name[1] ELSE @,
                     ![cid].display_order = IF order # None THEN order[1] ELSE @]
            /\ last' = Response("update_category", u, "Ok")
    /\ UNCHANGED <<pending, tokens, daily_goals, cache, now, users, diary_entries, food_items, custom_foods, custom_meals,
                   nextId>>

\* A count query that finds no entry, whatever the diary holds.
EntryCountNone(cid) == 0 * Cardinality(DOMAIN diary_entries)

\* category.py delete_category, the count query: entries in this category.
EntryCount(cid) ==
    Cardinality({e \in DOMAIN diary_entries : diary_entries[e].category_id = cid})

\* An outcome without the protection of default categories, and one that
\* checks the protection before the entries: the code does neither.
DeleteCategoryStatusUnprotected(u, cid) ==
    IF ~GetCategory(u, cid) THEN "NotFound"
    ELSE IF EntryCount(cid) > 0 THEN "Conflict"
    ELSE "Ok"

DeleteCategoryStatusDefaultFirst(u, cid) ==
    IF ~GetCategory(u, cid) THEN "NotFound"
    ELSE IF categories[cid].is_default THEN "Forbidden"
    ELSE IF EntryCount(cid) > 0 THEN "Conflict"
    ELSE "Ok"

\* category.py delete_category: the outcome, decided in the order of the code.
DeleteCategoryStatus(u, cid) ==
    IF ~GetCategory(u, cid) THEN "NotFound"
    ELSE IF EntryCount(cid) > 0 THEN "Conflict"
    ELSE IF categories[cid].is_default THEN "Forbidden"
    ELSE "Ok"

\* api/categories.py delete_category and category.py delete_category.
DeleteCategory(u, cid) ==
    /\ u \in users
    /\ LET status == DeleteCategoryStatus(u, cid) IN
       /\ last' = Response("delete_category", u, status)
       /\ categories' = IF status = "Ok" THEN Without(categories, cid)
                        ELSE categories
    /\ UNCHANGED <<pending, tokens, daily_goals, cache, now, users, diary_entries, food_items, custom_foods, custom_meals,
                   nextId>>

\* The elements of a sequence.
Range(s) == {s[i] : i \in DOMAIN s}

\* A validation that compares the sets only.
ReorderValidSetOnly(u, category_ids) ==
    Range(category_ids) = UserCategoryIds(u)

\* category.py reorder_categories, the validation: the provided set is the
\* caller's set of category ids, and the list holds no id twice.
ReorderValid(u, category_ids) ==
    /\ Range(category_ids) = UserCategoryIds(u)
    /\ Len(category_ids) = Cardinality(Range(category_ids))

\* category.py reorder_categories, the loop: enumerate(category_ids, start=1).
Reordered(category_ids) ==
    [c \in DOMAIN categories |->
        IF c \in Range(category_ids)
        THEN [categories[c] EXCEPT !.display_order =
                 CHOOSE i \in DOMAIN category_ids : category_ids[i] = c]
        ELSE categories[c]]

\* api/categories.py reorder_categories and category.py reorder_categories.
\* A reorder that writes the display orders before it validates the list.
ReorderCategoriesWriteFirst(u, category_ids) ==
    /\ u \in users
    /\ categories' =
          [c \in DOMAIN categories |->
              IF c \in Range(category_ids) /\ categories[c].user_id = u
              THEN [categories[c] EXCEPT !.display_order =
                       CHOOSE i \in DOMAIN category_ids : category_ids[i] = c]
              ELSE categories[c]]
    /\ last' = Response("reorder_categories", u,
                        IF category_ids = <<>> \/ ~ReorderValid(u, category_ids)
                        THEN "InvalidInput" ELSE "Ok")
    /\ UNCHANGED <<pending, tokens, daily_goals, cache, now, users, diary_entries,
                   food_items, custom_foods, custom_meals, nextId>>

ReorderCategories(u, category_ids) ==
    /\ u \in users
    /\ IF category_ids = <<>> \/ ~ReorderValid(u, category_ids)
       THEN /\ last' = Response("reorder_categories", u, "InvalidInput")
            /\ UNCHANGED categories
       ELSE /\ categories' = Reordered(category_ids)
            /\ last' = Response("reorder_categories", u, "Ok")
    /\ UNCHANGED <<pending, tokens, daily_goals, cache, now, users, diary_entries, food_items, custom_foods, custom_meals,
                   nextId>>

\* ----------------------------------------------------------------- foods

\* diary.py _get_food (custom_meal.py _get_food is the same): the CustomFood
\* row with this id, else the FoodItem row, else nothing.  No owner check.
GetFood(food_id) ==
    IF food_id \in DOMAIN custom_foods THEN Some(custom_foods[food_id])
    ELSE IF food_id \in DOMAIN food_items THEN Some(food_items[food_id])
    ELSE None

\* api/custom_foods.py create_custom_food and custom_foods.py
\* create_custom_food, for a body that passes the field validation.
CreateCustomFood(u, food) ==
    /\ u \in users
    /\ CanCreate
    /\ custom_foods' = custom_foods @@
         (FoodId(nextId.food + 1) :>
                    [user_id |-> u, name |-> food.name,
                     calories |-> food.calories, protein_g |-> food.protein_g,
                     carbs_g |-> food.carbs_g, fat_g |-> food.fat_g])
    /\ nextId' = [nextId EXCEPT !.food = @ + 1, !.requests = @ + 1]
    /\ last' = Response("create_custom_food", u, "Ok")
    /\ UNCHANGED <<pending, tokens, daily_goals, cache, now, users, categories, diary_entries, food_items, custom_meals>>

\* custom_foods.py get_custom_food: the row with this id owned by the caller.
GetCustomFood(u, food_id) ==
    food_id \in DOMAIN custom_foods /\ custom_foods[food_id].user_id = u

\* api/custom_foods.py update_custom_food and custom_foods.py
\* update_custom_food, for a body that passes the field validation; rawName
\* and calories are Optional.  A name that strips to nothing is refused after
\* the row was found, and nothing is committed.
UpdateCustomFood(u, food_id, rawName, calories) ==
    /\ u \in users
    /\ IF ~GetCustomFood(u, food_id)
       THEN /\ last' = Response("update_custom_food", u, "NotFound")
            /\ UNCHANGED custom_foods
       ELSE IF rawName # None /\ Strip(rawName[1]) = ""
       THEN /\ last' = Response("update_custom_food", u, "InvalidInput")
            /\ UNCHANGED custom_foods
       ELSE /\ custom_foods' =
                 [custom_foods EXCEPT
                     ![food_id].name =
                         IF rawName # None THEN Strip(rawName[1]) ELSE @,
                     ![food_id].calories =
                         IF calories # None THEN calories[1] ELSE @]
            /\ last' = Response("update_custom_food", u, "Ok")
    /\ UNCHANGED <<pending, tokens, daily_goals, cache, now, users, categories, diary_entries,
                   food_items, custom_meals, nextId>>

\* api/custom_foods.py delete_custom_food and custom_foods.py
\* delete_custom_food: a hard delete of the caller's own row.
DeleteCustomFood(u, food_id) ==
    /\ u \in users
    /\ IF GetCustomFood(u, food_id)
       THEN /\ custom_foods' = Without(custom_foods, food_id)
            /\ last' = Response("delete_custom_food", u, "Ok")
       ELSE /\ last' = Response("delete_custom_food", u, "NotFound")
            /\ UNCHANGED custom_foods
    /\ UNCHANGED <<pending, tokens, daily_goals, cache, now, users, categories, diary_entries, food_items, custom_meals,
                   nextId>>

\* ------------------------------------------------------ binary64 numbers

\* Python's float is IEEE-754 binary64; a value is m * 2^e with a natural
\* number m of at most DBL_MANT_DIG bits.  Naturals of that size are held as
\* little-endian sequences of limbs in 0 .. Base-1 without a leading zero limb
\* (<<>> is 0).  All the floats of the program are non-negative and far from
\* the overflow and subnormal ranges.
DBL_MANT_DIG == 53
Base == 2^15

RECURSIVE Limbs(_)
Limbs(n) == IF n = 0 THEN <<>> ELSE <<n % Base>> \o Limbs(n \div Base)

RECURSIVE ToInt(_)
ToInt(N) == IF N = <<>> THEN 0 ELSE Head(N) + Base * ToInt(Tail(N))

RECURSIVE Norm(_)
Norm(N) ==
    IF N # <<>> /\ N[Len(N)] = 0 THEN Norm(SubSeq(N, 1, Len(N) - 1)) ELSE N

RECURSIVE AddCarry(_, _, _)
AddCarry(X, Y, carry) ==
    IF X = <<>> /\ Y = <<>> THEN Limbs(carry)
    ELSE LET x == IF X = <<>> THEN 0 ELSE Head(X)
             y == IF Y = <<>> THEN 0 ELSE Head(Y)
             t == x + y + carry
         IN  <<t % Base>> \o AddCarry(IF X = <<>> THEN X ELSE Tail(X),
                                      IF Y = <<>> THEN Y ELSE Tail(Y),
                                      t \div Base)

Add(X, Y) == AddCarry(X, Y, 0)

\* X * c for 0 <= c < Base.
RECURSIVE MulCarry(_, _, _)
MulCarry(X, c, carry) ==
    IF X = <<>> THEN Limbs(carry)
    ELSE LET t == Head(X) * c + carry
         IN  <<t % Base>> \o MulCarry(Tail(X), c, t \div Base)

MulSmall(X, c) == Norm(MulCarry(X, c, 0))

RECURSIVE Mul(_, _)
Mul(X, Y) ==
    IF X = <<>> \/ Y = <<>> THEN <<>>
    ELSE LET rest == Mul(X, Tail(Y))
         IN  Add(MulSmall(X, Head(Y)), IF rest = <<>> THEN rest ELSE <<0>> \o rest)

\* Long division of the limbs i, i-1, .. 1 of X by d, 0 < d < Base, with the
\* remainder rem of the limbs above: <<quotient, remainder>>.
RECURSIVE DivFrom(_, _, _, _)
DivFrom(X, d, i, rem) ==
    IF i = 0 THEN << <<>>, rem >>
    ELSE LET t    == rem * Base + X[i]
             rest == DivFrom(X, d, i - 1, t % d)
         IN  <<Append(rest[1], t \div d), rest[2]>>

DivSmall(X, d) ==
    LET r == DivFrom(X, d, Len(X), 0) IN <<Norm(r[1]), r[2]>>

RECURSIVE Bits(_)
Bits(n) == IF n = 0 THEN 0 ELSE 1 + Bits(n \div 2)

BitLen(N) ==
    IF N = <<>> THEN 0 ELSE Bits(N[Len(N)]) + Bits(Base - 1) * (Len(N) - 1)

ShiftLeft(N, s) ==
    LET high == MulSmall(N, 2^(s % Bits(Base - 1)))
    IN  IF high = <<>> THEN high
        ELSE [i \in 1 .. s \div Bits(Base - 1) |-> 0] \o high

\* floor(N / 2^s)
ShiftRight(N, s) ==
    LET limbs == s \div Bits(Base - 1)
    IN  IF limbs >= Len(N) THEN <<>>
        ELSE DivSmall(SubSeq(N, limbs + 1, Len(N)), 2^(s % Bits(Base - 1)))[1]

Odd(N) == N # <<>> /\ Head(N) % 2 = 1

\* N / 2^s, or a value between N / 2^s and (N + 1) / 2^s when `inexact`,
\* rounded to the nearest natural, a tie to the even one.
RoundShift(N, s, inexact) ==
    IF s = 0 THEN N
    ELSE LET twice  == ShiftRight(N, s - 1)
             sticky == inexact \/ ShiftLeft(twice, s - 1) # N
             q      == ShiftRight(twice, 1)
         IN  IF Odd(twice) /\ (sticky \/ Odd(q)) THEN Add(q, <<1>>) ELSE q

\* The binary64 nearest to N * 2^e (round-half-even).
Round53(N, e, inexact) ==
    IF BitLen(N) <= DBL_MANT_DIG THEN [m |-> N, e |-> e]
    ELSE LET s == BitLen(N) - DBL_MANT_DIG
         IN  [m |-> RoundShift(N, s, inexact), e |-> e + s]

\* float(Decimal) and the parse of a JSON number: the binary64 nearest to
\* n / d, for 0 < d < Base.
FromRatio(n, d) ==
    LET qr == DivSmall(ShiftLeft(Limbs(n), 2 * DBL_MANT_DIG), d)
    IN  Round53(qr[1], 0 - 2 * DBL_MANT_DIG, qr[2] # 0)

\* int -> float, exact below 2^DBL_MANT_DIG.
FromInt(n) == [m |-> Limbs(n), e |-> 0]

\* float * float
FMul(x, y) == Round53(Mul(x.m, y.m), x.e + y.e, FALSE)

\* float + float
FAdd(x, y) ==
    IF x.m = <<>> THEN y
    ELSE IF y.m = <<>> THEN x
    ELSE LET e == IF x.e < y.e THEN x.e ELSE y.e
         IN  Round53(Add(ShiftLeft(x.m, x.e - e), ShiftLeft(y.m, y.e - e)),
                     e, FALSE)

\* int(float): the integer part.
Trunc(x) ==
    IF x.e >= 0 THEN ToInt(ShiftLeft(x.m, x.e))
    ELSE ToInt(ShiftRight(x.m, 0 - x.e))

\* round(float, 2), in hundredths: the decimal with two places nearest to the
\* exact value of the float, a tie to the even one.
Round2(x) ==
    LET N == MulSmall(x.m, 100)
    IN  IF x.e >= 0 THEN ToInt(ShiftLeft(N, x.e))
        ELSE ToInt(RoundShift(N, 0 - x.e, FALSE))

\* ----------------------------------------------------------------- diary

\* models/diary.py quantity = Column(Numeric(8, 2)): a decimal in thousandths
\* is stored, and read back, rounded to hundredths.
Numeric82(q) == (q + 5) \div 10

\* diary.py validate_quantity
validate_quantity(quantity) == quantity > 0

\* diary.py validate_entry_date; dates are days counted from today.
validate_entry_date(entry_date) == entry_date <= MaxFutureDays

\* diary.py add_entry, the checks in the order of the code; foodFound is the
\* outcome of _get_food(food_id).
AddEntryStatus(u, entry_date, category_id, foodFound, quantity) ==
    IF ~validate_quantity(quantity) THEN "InvalidInput"
    ELSE IF ~validate_entry_date(entry_date) THEN "InvalidInput"
    ELSE IF ~GetCategory(u, category_id) THEN "NotFound"
    ELSE IF ~foodFound THEN "NotFound"
    ELSE "Ok"

\* diary.py add_entry, the row it inserts.
NewEntry(u, entry_date, category_id, food_id, quantity) ==
    [user_id |-> u, category_id |-> category_id, food_id |-> food_id,
     entry_date |-> entry_date, quantity |-> Numeric82(quantity)]

\* diary.py create_inline_food, the row it inserts.
InlineFood(u, food) ==
    [created_by_user_id |-> u, name |-> food.name,
     calories |-> food.calories, protein_g |-> food.protein_g,
     carbs_g |-> food.carbs_g, fat_g |-> food.fat_g]

\* api/diary.py add_entry with diary.py create_inline_food and add_entry.
\* food_id and food are the Optional request fields; the request schema
\* rejects a quantity that is not positive before the handler runs; an inline
\* food is committed before add_entry is called.
AddEntry(u, entry_date, category_id, food_id, food, quantity) ==
    /\ u \in users
    /\ LET inline == food # None
           fid    == IF inline THEN FoodId(nextId.food + 1)
                     ELSE IF food_id # None THEN food_id[1] ELSE 0
       IN
       IF quantity <= 0
       THEN /\ last' = Response("add_entry", u, "InvalidInput")
            /\ UNCHANGED <<diary_entries, food_items, nextId>>
       ELSE IF food_id = None /\ food = None
       THEN /\ last' = Response("add_entry", u, "BadRequest")
            /\ UNCHANGED <<diary_entries, food_items, nextId>>
       ELSE LET status == AddEntryStatus(u, entry_date, category_id,
                              inline \/ GetFood(fid) # None, quantity)
                eid    == EntryId(nextId.entry + 1)
                foods  == IF inline THEN 1 ELSE 0
                rows   == IF status = "Ok" THEN 1 ELSE 0
            IN  /\ foods + rows > 0 => CanCreate
                /\ food_items' = IF inline
                                 THEN food_items @@ (fid :> InlineFood(u, food[1]))
                                 ELSE food_items
                /\ diary_entries' =
                     IF status = "Ok"
                     THEN diary_entries @@
                            (eid :> NewEntry(u, entry_date, category_id, fid,
                                             quantity))
                     ELSE diary_entries
                /\ nextId' = [nextId EXCEPT
                                !.food = @ + foods, !.entry = @ + rows,
                                !.requests = IF foods + rows > 0 THEN @ + 1 ELSE @]
                /\ last' = Response("add_entry", u, status)
    /\ UNCHANGED <<pending, tokens, daily_goals, cache, now, users, categories, custom_foods, custom_meals>>

\* An entry query without the owner filter.
GetEntryAnyOwner(u, entry_id) == entry_id \in DOMAIN diary_entries

\* diary.py update_entry / delete_entry, the entry query: the caller's entry.
GetEntry(u, entry_id) ==
    entry_id \in DOMAIN diary_entries /\ diary_entries[entry_id].user_id = u

\* diary.py update_entry, the outcome; quantity and category_id are Optional.
\* The request schema rejects a quantity that is not positive.
\* A session whose pending writes are committed when it is closed.
get_dbCommitOnClose(persisted, session, committed) == session

\* deps.py get_db: the session of a request is closed when the request ends,
\* which discards what the handler wrote and did not commit.
get_db(persisted, session, committed) ==
    IF committed THEN session ELSE persisted

UpdateEntryStatus(u, entry_id, quantity, category_id) ==
    IF quantity # None /\ quantity[1] <= 0 THEN "InvalidInput"
    ELSE IF ~GetEntry(u, entry_id) THEN "NotFound"
    ELSE IF quantity # None /\ ~validate_quantity(quantity[1]) THEN "InvalidInput"
    ELSE IF category_id # None /\ ~GetCategory(u, category_id[1]) THEN "NotFound"
    ELSE "Ok"

\* api/diary.py update_entry and diary.py update_entry.  Nothing is committed
\* unless every check passes: the session of a failed request is closed
\* without a commit.
\* diary.py update_entry: diary_entries as the session sees it when the
\* service returns or raises; the quantity is assigned before the category is
\* looked up.
update_entry_session(u, entry_id, quantity, category_id) ==
    IF ~GetEntry(u, entry_id) THEN diary_entries
    ELSE IF quantity # None /\ ~validate_quantity(quantity[1]) THEN diary_entries
    ELSE LET measured ==
                 IF quantity = None THEN diary_entries
                 ELSE [diary_entries EXCEPT
                         ![entry_id].quantity = Numeric82(quantity[1])]
         IN  IF category_id = None \/ ~GetCategory(u, category_id[1])
             THEN measured
             ELSE [measured EXCEPT ![entry_id].category_id = category_id[1]]

UpdateEntry(u, entry_id, quantity, category_id) ==
    /\ u \in users
    /\ LET status == UpdateEntryStatus(u, entry_id, quantity, category_id) IN
       /\ last' = Response("update_entry", u, status)
       /\ diary_entries' =
            get_db(diary_entries,
                   IF quantity # None /\ quantity[1] <= 0 THEN diary_entries
                   ELSE update_entry_session(u, entry_id, quantity, category_id),
                   status = "Ok")
    /\ UNCHANGED <<pending, tokens, daily_goals, cache, now, users, categories, food_items, custom_foods, custom_meals,
                   nextId>>

\* api/diary.py delete_entry and diary.py delete_entry.
DeleteEntry(u, entry_id) ==
    /\ u \in users
    /\ IF GetEntry(u, entry_id)
       THEN /\ diary_entries' = Without(diary_entries, entry_id)
            /\ last' = Response("delete_entry", u, "Ok")
       ELSE /\ last' = Response("delete_entry", u, "NotFound")
            /\ UNCHANGED diary_entries
    /\ UNCHANGED <<pending, tokens, daily_goals, cache, now, users, categories, food_items, custom_foods, custom_meals,
                   nextId>>

\* ---------------------------------------------------------- diary totals

\* str(float), parsed by Decimal, for a float that is the binary64 of a
\* decimal with two places: the shortest digits that give the float back are
\* those of that decimal.  In hundredths.
DecimalStr(x) == Round2(x)

\* float(entry.quantity), float(item.quantity): a stored NUMERIC(8, 2).
QuantityFloat(hundredths) == FromRatio(hundredths, 100)

\* diary.py calculate_entry_macros(food, quantity), quantity a float.
\* calories is an int; the macros are Decimals, in ten-thousandths.
calculate_entry_macros(food, quantity) ==
    [calories  |-> Trunc(FMul(FromInt(food.calories), quantity)),
     protein_g |-> food.protein_g * DecimalStr(quantity),
     carbs_g   |-> food.carbs_g * DecimalStr(quantity),
     fat_g     |-> food.fat_g * DecimalStr(quantity)]

ZeroTotals == [calories |-> 0, protein_g |-> 0, carbs_g |-> 0, fat_g |-> 0]

\* diary.py calculate_daily_totals(entries): the loop over the entries, which
\* computes each term itself and skips an entry whose food is gone.
RECURSIVE calculate_daily_totals(_)
calculate_daily_totals(entries) ==
    IF entries = {} THEN ZeroTotals
    ELSE LET e        == CHOOSE x \in entries : TRUE
             totals   == calculate_daily_totals(entries \ {e})
             food     == GetFood(diary_entries[e].food_id)
             quantity == QuantityFloat(diary_entries[e].quantity)
         IN  IF food = None THEN totals
             ELSE [calories  |-> totals.calories
                                   + Trunc(FMul(FromInt(food[1].calories), quantity)),
                   protein_g |-> totals.protein_g
                                   + food[1].protein_g * DecimalStr(quantity),
                   carbs_g   |-> totals.carbs_g
                                   + food[1].carbs_g * DecimalStr(quantity),
                   fat_g     |-> totals.fat_g
                                   + food[1].fat_g * DecimalStr(quantity)]

\* diary.py get_diary, the entries query: the caller's entries of the date.
DiaryEntriesOf(u, diary_date) ==
    {e \in DOMAIN diary_entries :
        /\ diary_entries[e].user_id = u
        /\ diary_entries[e].entry_date = diary_date}

\* diary.py get_diary, "totals" of the response: calories as counted, the
\* macros converted with float(Decimal).
get_diary_totals(u, diary_date) ==
    LET totals == calculate_daily_totals(DiaryEntriesOf(u, diary_date))
    IN  [calories  |-> totals.calories,
         protein_g |-> FromRatio(totals.protein_g, 10000),
         carbs_g   |-> FromRatio(totals.carbs_g, 10000),
         fat_g     |-> FromRatio(totals.fat_g, 10000)]

\* api/diary.py _get_food_response and diary.py _get_entry_response_dict, the
\* "food" of an entry in a response: the row that _get_food finds, or a
\* placeholder.
get_food_response(food_id) ==
    LET food == GetFood(food_id) IN
    IF food = None
    THEN [id |-> food_id, name |-> "[Deleted Food]", calories |-> 0,
          protein_g |-> FromInt(0), carbs_g |-> FromInt(0), fat_g |-> FromInt(0)]
    ELSE [id |-> food_id, name |-> food[1].name, calories |-> food[1].calories,
          protein_g |-> FromRatio(food[1].protein_g, 100),
          carbs_g |-> FromRatio(food[1].carbs_g, 100),
          fat_g |-> FromRatio(food[1].fat_g, 100)]

\* diary.py _get_entry_response_dict: an entry in a response.
get_entry_response_dict(entry_id) ==
    [id |-> entry_id,
     food |-> get_food_response(diary_entries[entry_id].food_id),
     quantity |-> QuantityFloat(diary_entries[entry_id].quantity)]

\* diary.py get_diary, the entries of the response: those of the date, under
\* the caller's categories.
get_diary_entries(u, diary_date) ==
    {get_entry_response_dict(e) :
        e \in {x \in DiaryEntriesOf(u, diary_date) :
                  GetCategory(u, diary_entries[x].category_id)}}

\* ---------------------------------------------------------- custom meals

\* A custom_meals row holds its custom_meal_items as the list `items` of
\* [food_id, quantity]; a request's items carry the quantity in thousandths.

\* A check without the owner, which the code does not make: any CustomFood,
\* or any FoodItem.
ValidateFoodExistsAnyOwner(u, food_id) ==
    food_id \in DOMAIN custom_foods \cup DOMAIN food_items

\* custom_meal.py _validate_food_exists: a CustomFood of the caller, or any
\* FoodItem.
ValidateFoodExists(u, food_id) ==
    \/ food_id \in DOMAIN custom_foods /\ custom_foods[food_id].user_id = u
    \/ food_id \in DOMAIN food_items

\* A lookup that finds deleted meals too, which the code does not do.
GetCustomMealDeletedToo(u, meal_id) ==
    /\ meal_id \in DOMAIN custom_meals
    /\ custom_meals[meal_id].user_id = u

\* custom_meal.py get_custom_meal: the caller's meal that is not deleted.
GetCustomMeal(u, meal_id) ==
    /\ meal_id \in DOMAIN custom_meals
    /\ custom_meals[meal_id].user_id = u
    /\ ~custom_meals[meal_id].is_deleted

\* custom_meal.py get_custom_meals: the caller's meals that are not deleted.
GetCustomMeals(u) == {m \in DOMAIN custom_meals : GetCustomMeal(u, m)}

\* The CustomMealItem rows of a request's items.
MealItems(items) ==
    [i \in DOMAIN items |->
        [food_id |-> items[i].food_id, quantity |-> Numeric82(items[i].quantity)]]

\* api/meals.py MealItemCreate and the items field: at least one item, every
\* quantity positive.
ItemsAccepted(items) ==
    /\ items # <<>>
    /\ \A i \in DOMAIN items : items[i].quantity > 0

\* custom_meal.py create_custom_meal / update_custom_meal, the loop over
\* _validate_food_exists.
ItemsExist(u, items) ==
    \A i \in DOMAIN items : ValidateFoodExists(u, items[i].food_id)

\* api/meals.py create_custom_meal and custom_meal.py create_custom_meal.
\* Every rejection is a 422.
\* custom_meal.py, the loops "for item in items": the items added to the
\* session before one with a non-positive quantity raises.
AddedItems(items) ==
    LET bad == {i \in DOMAIN items : items[i].quantity <= 0} IN
    IF bad = {} THEN items
    ELSE SubSeq(items, 1, (CHOOSE i \in bad : \A j \in bad : i <= j) - 1)

\* custom_meal.py create_custom_meal: custom_meals as the session sees it
\* when the service returns or raises.
create_custom_meal_session(u, rawName, items) ==
    IF Strip(rawName) = "" \/ items = <<>> \/ ~ItemsExist(u, items)
    THEN custom_meals
    ELSE custom_meals @@
           (MealId(nextId.meal + 1) :>
                [user_id |-> u, name |-> Strip(rawName),
                 is_deleted |-> FALSE, items |-> MealItems(AddedItems(items))])

CreateCustomMeal(u, rawName, items) ==
    /\ u \in users
    /\ IF \/ rawName = ""
          \/ ~ItemsAccepted(items)
          \/ Strip(rawName) = ""
          \/ ~ItemsExist(u, items)
       THEN /\ last' = Response("create_custom_meal", u, "InvalidInput")
            /\ custom_meals' =
                 get_db(custom_meals,
                        IF rawName = "" \/ ~ItemsAccepted(items) THEN custom_meals
                        ELSE create_custom_meal_session(u, rawName, items),
                        FALSE)
            /\ UNCHANGED nextId
       ELSE /\ CanCreate
            /\ custom_meals' =
                 get_db(custom_meals,
                        create_custom_meal_session(u, rawName, items), TRUE)
            /\ nextId' = [nextId EXCEPT !.meal = @ + 1, !.requests = @ + 1]
            /\ last' = Response("create_custom_meal", u, "Ok")
    /\ UNCHANGED <<pending, tokens, daily_goals, cache, now, users, categories, diary_entries, food_items, custom_foods>>

\* api/meals.py update_custom_meal and custom_meal.py update_custom_meal;
\* rawName and items are Optional.  The request schema is checked first, then
\* the meal is looked up, then the name and the items are checked; a rejected
\* request commits nothing.
UpdateCustomMealStatus(u, meal_id, rawName, items) ==
    IF \/ rawName # None /\ rawName[1] = ""
       \/ items # None /\ ~ItemsAccepted(items[1])
    THEN "InvalidInput"
    ELSE IF ~GetCustomMeal(u, meal_id) THEN "NotFound"
    ELSE IF rawName # None /\ Strip(rawName[1]) = "" THEN "InvalidInput"
    ELSE IF items # None /\ ~ItemsExist(u, items[1]) THEN "InvalidInput"
    ELSE "Ok"

\* custom_meal.py update_custom_meal: custom_meals as the session sees it when
\* the service returns or raises; the name is assigned before the items are
\* validated, and the old items are deleted before the new quantities are.
update_custom_meal_session(u, meal_id, rawName, items) ==
    IF ~GetCustomMeal(u, meal_id) THEN custom_meals
    ELSE IF rawName # None /\ Strip(rawName[1]) = "" THEN custom_meals
    ELSE LET named == IF rawName = None THEN custom_meals
                      ELSE [custom_meals EXCEPT
                              ![meal_id].name = Strip(rawName[1])]
         IN  IF items = None THEN named
             ELSE IF items[1] = <<>> \/ ~ItemsExist(u, items[1]) THEN named
             ELSE [named EXCEPT
                     ![meal_id].items = MealItems(AddedItems(items[1]))]

UpdateCustomMeal(u, meal_id, rawName, items) ==
    /\ u \in users
    /\ LET status == UpdateCustomMealStatus(u, meal_id, rawName, items) IN
       /\ last' = Response("update_custom_meal", u, status)
       /\ custom_meals' =
            get_db(custom_meals,
                   IF \/ rawName # None /\ rawName[1] = ""
                      \/ items # None /\ ~ItemsAccepted(items[1])
                   THEN custom_meals
                   ELSE update_custom_meal_session(u, meal_id, rawName, items),
                   status = "Ok")
    /\ UNCHANGED <<pending, tokens, daily_goals, cache, now, users, categories, diary_entries, food_items, custom_foods,
                   nextId>>

\* api/meals.py delete_custom_meal and custom_meal.py delete_custom_meal: a
\* soft delete.
DeleteCustomMeal(u, meal_id) ==
    /\ u \in users
    /\ IF GetCustomMeal(u, meal_id)
       THEN /\ custom_meals' = [custom_meals EXCEPT ![meal_id].is_deleted = TRUE]
            /\ last' = Response("delete_custom_meal", u, "Ok")
       ELSE /\ last' = Response("delete_custom_meal", u, "NotFound")
            /\ UNCHANGED custom_meals
    /\ UNCHANGED <<pending, tokens, daily_goals, cache, now, users, categories, diary_entries, food_items, custom_foods,
                   nextId>>

\* api/meals.py get_custom_meal.
GetCustomMealStatus(u, meal_id) ==
    IF GetCustomMeal(u, meal_id) THEN "Ok" ELSE "NotFound"

\* api/diary.py add_meal_to_diary, the loop: add_entry for the items in order,
\* each committing its entry; the first rejected one ends the request.  The
\* outcome of add_entry for item i:
MealItemStatus(u, diary_date, category_id, item) ==
    AddEntryStatus(u, diary_date, category_id, GetFood(item.food_id) # None,
                   10 * item.quantity)

\* A loop that stops after the first item, which the code does not do.
AcceptedItemsFirstOnly(u, diary_date, category_id, items) ==
    IF items # <<>> /\ MealItemStatus(u, diary_date, category_id, Head(items)) = "Ok"
    THEN 1 ELSE 0

\* A loop in one transaction, which the code does not have: every item or
\* none.
AcceptedItemsAllOrNothing(u, diary_date, category_id, items) ==
    IF \A i \in DOMAIN items :
          MealItemStatus(u, diary_date, category_id, items[i]) = "Ok"
    THEN Len(items) ELSE 0

\* The number of items add_entry accepts before the first it rejects.
RECURSIVE AcceptedItems(_, _, _, _)
AcceptedItems(u, diary_date, category_id, items) ==
    IF items = <<>> THEN 0
    ELSE IF MealItemStatus(u, diary_date, category_id, Head(items)) # "Ok" THEN 0
    ELSE 1 + AcceptedItems(u, diary_date, category_id, Tail(items))

\* api/diary.py add_meal_to_diary.
AddMealToDiary(u, diary_date, meal_id, category_id) ==
    /\ u \in users
    /\ IF ~GetCustomMeal(u, meal_id)
       THEN /\ last' = Response("add_meal_to_diary", u, "NotFound")
            /\ UNCHANGED <<diary_entries, nextId>>
       ELSE LET items == custom_meals[meal_id].items
                n     == AcceptedItems(u, diary_date, category_id, items)
            IN  /\ n > 0 => CanCreate
                /\ diary_entries' = diary_entries @@
                     [e \in {EntryId(nextId.entry + i) : i \in 1 .. n} |->
                        LET item == items[e - EntryId(nextId.entry)]
                        IN  NewEntry(u, diary_date, category_id, item.food_id,
                                     10 * item.quantity)]
                /\ nextId' = [nextId EXCEPT
                                !.entry = @ + n,
                                !.requests = IF n > 0 THEN @ + 1 ELSE @]
                /\ last' = Response("add_meal_to_diary", u,
                              IF n = Len(items) THEN "Ok"
                              ELSE MealItemStatus(u, diary_date, category_id,
                                                  items[n + 1]))
    /\ UNCHANGED <<pending, tokens, daily_goals, cache, now, users, categories, food_items, custom_foods, custom_meals>>

\* custom_meal.py get_meal_totals: the totals after the first n items, all
\* floats from the first resolvable item on (0 + x and 0.0 + x are x).
RECURSIVE get_meal_totals(_, _)
get_meal_totals(items, n) ==
    IF n = 0
    THEN [calories |-> FromInt(0), protein_g |-> FromInt(0),
          carbs_g |-> FromInt(0), fat_g |-> FromInt(0)]
    ELSE LET totals   == get_meal_totals(items, n - 1)
             food     == GetFood(items[n].food_id)
             quantity == QuantityFloat(items[n].quantity)
         IN  IF food = None THEN totals
             ELSE [calories  |-> FAdd(totals.calories,
                                      FMul(FromInt(food[1].calories), quantity)),
                   protein_g |-> FAdd(totals.protein_g,
                                      FMul(FromRatio(food[1].protein_g, 100), quantity)),
                   carbs_g   |-> FAdd(totals.carbs_g,
                                      FMul(FromRatio(food[1].carbs_g, 100), quantity)),
                   fat_g     |-> FAdd(totals.fat_g,
                                      FMul(FromRatio(food[1].fat_g, 100), quantity))]

\* api/meals.py CustomMealResponse.from_model, an item of "items".
MealItemResponse(item) ==
    LET food     == GetFood(item.food_id)
        quantity == QuantityFloat(item.quantity)
    IN  IF food = None
        THEN [food_id |-> item.food_id, food_name |-> "[Deleted Food]",
              quantity |-> quantity, calories |-> 0,
              protein_g |-> FromInt(0), carbs_g |-> FromInt(0),
              fat_g |-> FromInt(0), is_deleted |-> TRUE]
        ELSE [food_id |-> item.food_id, food_name |-> food[1].name,
              quantity |-> quantity,
              calories |-> Trunc(FMul(FromInt(food[1].calories), quantity)),
              protein_g |-> FMul(FromRatio(food[1].protein_g, 100), quantity),
              carbs_g |-> FMul(FromRatio(food[1].carbs_g, 100), quantity),
              fat_g |-> FMul(FromRatio(food[1].fat_g, 100), quantity),
              is_deleted |-> FALSE]

\* api/meals.py CustomMealResponse.from_model: the meal view.  The macros of
\* "totals" are round(x, 2), in hundredths.
from_model(meal_id) ==
    LET items  == custom_meals[meal_id].items
        totals == get_meal_totals(items, Len(items))
    IN  [id |-> meal_id,
         name |-> custom_meals[meal_id].name,
         items |-> [i \in DOMAIN items |-> MealItemResponse(items[i])],
         totals |-> [calories  |-> Trunc(totals.calories),
                     protein_g |-> Round2(totals.protein_g),
                     carbs_g   |-> Round2(totals.carbs_g),
                     fat_g     |-> Round2(totals.fat_g)]]

\* ------------------------------------------------- requests of the checks

\* ----------------------------------------------------------- food search

\* food_search.py _cache_ttl = timedelta(minutes=15); the clock `now` counts
\* in units of this time to live.
cache_ttl == 1

\* str.lower() and str.strip(), on the queries the requests carry.
LowerQuery(query) == IF query = "OAT" THEN "oat" ELSE query
StripQuery(query) == IF query = " " THEN "" ELSE query

\* custom_foods.py search_custom_foods: CustomFood.name.ilike("%term%"), on
\* the food names and the search terms of the model.
ilike(name, term) ==
    \/ name = "Oats" /\ term = "oat"
    \/ name = "Milk" /\ term = "milk"

\* The place of a food name in ORDER BY name.
NameRank(name) == IF name = "Milk" THEN 1 ELSE 2

\* custom_foods.py search_custom_foods: the ids of the caller's rows whose
\* name matches.
SearchCustomFoods(u, query) ==
    {f \in DOMAIN custom_foods :
        /\ custom_foods[f].user_id = u
        /\ ilike(custom_foods[f].name, LowerQuery(StripQuery(query)))}

\* ... .order_by(CustomFood.name).all(): every list of the rows S by name;
\* the database may list rows of one name in any order.
RECURSIVE OrderedByName(_)
OrderedByName(S) ==
    IF S = {} THEN {<<>>}
    ELSE UNION {{<<f>> \o rest : rest \in OrderedByName(S \ {f})} :
                   f \in {g \in S : \A h \in S :
                             NameRank(custom_foods[g].name)
                                <= NameRank(custom_foods[h].name)}}

\* food_search.py FoodSearchResult, of a custom food and of the k-th food of
\* a USDA answer.
CustomResult(f) ==
    [id |-> <<"custom", f>>, name |-> custom_foods[f].name,
     source |-> "custom", calories |-> custom_foods[f].calories]
USDAResult(k) ==
    [id |-> <<"usda", k>>, name |-> "usda food", source |-> "usda",
     calories |-> 0]

\* nutrition_api.py search_foods(query, page_size): the request fails (None),
\* or the service answers with at most page_size foods.
USDAAnswers(page_size) == {None} \cup {Some(n) : n \in 0 .. page_size}

\* A search that lists the USDA results first.
CombinedExternalFirst(custom_list, usda) ==
    (IF usda = None THEN <<>>
     ELSE [k \in 1 .. usda[1] |-> USDAResult(k)])
    \o [i \in 1 .. Len(custom_list) |-> CustomResult(custom_list[i])]

\* A search that returns nothing when the USDA request fails.
CombinedOrNothing(custom_list, usda) ==
    IF usda = None THEN <<>>
    ELSE [i \in 1 .. Len(custom_list) |-> CustomResult(custom_list[i])]
         \o [k \in 1 .. usda[1] |-> USDAResult(k)]

\* food_search.py search, lines 94-133: the custom results, then the USDA
\* results; a failed USDA request adds nothing.
Combined(custom_list, usda) ==
    [i \in 1 .. Len(custom_list) |-> CustomResult(custom_list[i])]
    \o (IF usda = None THEN <<>>
        ELSE [k \in 1 .. usda[1] |-> USDAResult(k)])

\* results[:limit]
Truncated(results, limit) ==
    SubSeq(results, 1, IF Len(results) < limit THEN Len(results) ELSE limit)

\* The response, and whether the request printed "USDA API error".
SearchResponse(u, limit, results, error_logged) ==
    [op |-> "search", user |-> u, status |-> "Ok", limit |-> limit,
     results |-> results, error_logged |-> error_logged]

\* api/foods.py search_foods and food_search.py search.  The cache belongs to
\* the class, so every request of the process shares it; its key is the
\* lower-cased query and the limit.
Search(u, query, limit, custom_list, usda) ==
    /\ u \in users
    /\ custom_list \in OrderedByName(SearchCustomFoods(u, query))
    /\ LET cache_key == <<LowerQuery(query), limit>>
       IN  IF StripQuery(query) = ""
           THEN /\ last' = SearchResponse(u, limit, <<>>, FALSE)
                /\ UNCHANGED cache
           ELSE IF /\ cache_key \in DOMAIN cache
                   /\ now - cache[cache_key].time < cache_ttl
           THEN /\ last' = SearchResponse(u, limit, cache[cache_key].results,
                                          FALSE)
                /\ UNCHANGED cache
           ELSE LET results == Combined(custom_list, usda)
                IN  /\ cache' = [k \in DOMAIN cache \cup {cache_key} |->
                                   IF k = cache_key
                                   THEN [results |-> results, time |-> now]
                                   ELSE cache[k]]
                    /\ last' = SearchResponse(u, limit,
                                              Truncated(results, limit),
                                              usda = None)
    /\ UNCHANGED <<pending, tokens, daily_goals, now, users, categories, diary_entries,
                   food_items, custom_foods, custom_meals, nextId>>

\* Time passes: one time to live of the cache.
Tick ==
    /\ now < MaxTime
    /\ now' = now + 1
    /\ UNCHANGED <<pending, tokens, daily_goals, cache, users, categories, diary_entries,
                   food_items, custom_foods, custom_meals, nextId, last>>


\* ----------------------------------------------------- goals and account

\* goals.py validate_calories
validate_calories(calories) ==
    calories = None \/ (500 <= calories[1] /\ calories[1] <= 10000)

\* api/goals.py set_goals and goals.py set_goals; calories is Optional.  The
\* one goal row of the caller is created, or its given fields are replaced.
SetGoals(u, calories) ==
    /\ u \in users
    /\ IF ~validate_calories(calories)
       THEN /\ last' = Response("set_goals", u, "InvalidInput")
            /\ UNCHANGED daily_goals
       ELSE /\ daily_goals' =
                 [g \in DOMAIN daily_goals \cup {u} |->
                     IF g # u THEN daily_goals[g]
                     ELSE IF u \in DOMAIN daily_goals /\ calories = None
                          THEN daily_goals[u]
                          ELSE [calories |-> calories]]
            /\ last' = Response("set_goals", u, "Ok")
    /\ UNCHANGED <<pending, tokens, cache, now, users, categories, diary_entries, food_items,
                   custom_foods, custom_meals, nextId>>

\* auth.py login with the right password, and deps.py get_current_user with
\* an access token of u that has not expired: both look the user row up.
login(u) == IF u \in users THEN "Ok" ELSE "Unauthorized"
get_current_user(u) == u \in users

\* The rows of a table that are not owned by u.
NotOwnedBy(table, u) ==
    [i \in {j \in DOMAIN table : table[j].user_id # u} |-> table[i]]

\* api/users.py delete_account, db.delete(current_user) and the commit.  The
\* flush first sets user_id to NULL in the user's diary entries (diary.py:
\* the backref User.diary_entries has no delete cascade and no
\* passive_deletes), which the NOT NULL column refuses; and the foreign key
\* food_items.created_by_user_id has no ON DELETE rule (food.py), so a food
\* item the user created refuses the DELETE of the user row.
DeleteBlocked(u) ==
    \/ \E e \in DOMAIN diary_entries : diary_entries[e].user_id = u
    \/ \E f \in DOMAIN food_items : food_items[f].created_by_user_id = u

\* api/users.py delete_account.  A refused flush is rolled back and answered
\* 500.  Otherwise the session deletes the goal, the custom foods and the
\* custom meals with their items (user.py cascade="all, delete-orphan") and
\* the user row; the database deletes the categories and their entries
\* (ON DELETE CASCADE).
DeleteAccount(u) ==
    /\ u \in users
    /\ IF DeleteBlocked(u)
       THEN /\ last' = Response("delete_account", u, "ServerError")
            /\ UNCHANGED <<users, categories, diary_entries, custom_foods,
                           custom_meals, daily_goals>>
       ELSE /\ users' = users \ {u}
            /\ daily_goals' = [g \in DOMAIN daily_goals \ {u} |-> daily_goals[g]]
            /\ custom_foods' = NotOwnedBy(custom_foods, u)
            /\ custom_meals' = NotOwnedBy(custom_meals, u)
            /\ categories' = NotOwnedBy(categories, u)
            /\ diary_entries' =
                 [e \in {d \in DOMAIN diary_entries :
                            /\ diary_entries[d].user_id # u
                            /\ ~GetCategory(u, diary_entries[d].category_id)}
                    |-> diary_entries[e]]
            /\ last' = Response("delete_account", u, "Ok")
    /\ UNCHANGED <<pending, tokens, cache, now, food_items, nextId>>

\* security.py verify_token: the subject of a token of the expected type that
\* has not expired, or None.
verify_token(token, token_type) ==
    IF token.type # token_type THEN None
    ELSE IF now > token.exp THEN None
    ELSE Some(token.sub)

\* auth.py login: unknown e-mail or wrong password is Unauthorized; otherwise a
\* new access token and a new refresh token.
Login(u, password_ok) ==
    IF u \notin users \/ ~password_ok
    THEN /\ last' = Response("login", u, "Unauthorized")
         /\ UNCHANGED <<pending, tokens, daily_goals, cache, now, users, categories,
                        diary_entries, food_items, custom_foods, custom_meals,
                        nextId>>
    ELSE /\ tokens' = tokens \cup {create_access_token(u),
                                   create_refresh_token(u)}
         /\ last' = Response("login", u, "Ok")
         /\ UNCHANGED <<pending, daily_goals, cache, now, users, categories,
                        diary_entries, food_items, custom_foods, custom_meals,
                        nextId>>

\* auth.py refresh_tokens: what the service answers to a token.
refresh_tokens(refresh_token) ==
    IF verify_token(refresh_token, "refresh") = None THEN "Unauthorized"
    ELSE IF verify_token(refresh_token, "refresh")[1] \notin users
         THEN "Unauthorized"
         ELSE "Ok"

\* auth.py refresh_tokens as a request: a verified refresh token of an existing
\* user buys a new pair of tokens; nothing is stored about the token presented.
RefreshTokens(refresh_token) ==
    /\ refresh_token \in tokens
    /\ last' = Response("refresh", refresh_token.sub, refresh_tokens(refresh_token))
    /\ IF refresh_tokens(refresh_token) = "Ok"
       THEN tokens' = tokens \cup {create_access_token(refresh_token.sub),
                                   create_refresh_token(refresh_token.sub)}
       ELSE UNCHANGED tokens
    /\ UNCHANGED <<pending, daily_goals, cache, now, users, categories, diary_entries,
                   food_items, custom_foods, custom_meals, nextId>>

\* ------------------------------------------------ requests in flight

\* Handlers run in a thread pool, each with a session of its own, and the
\* database isolates at READ COMMITTED: every statement of a request reads
\* what has been committed by then. A request in flight is a record of what
\* it was called with and the step it has reached.
InFlight(op, u, category_id, name, display_order, step) ==
    [op |-> op, user |-> u, category_id |-> category_id, name |-> name,
     display_order |-> display_order, step |-> step]

\* category.py delete_category up to db.delete(category): the category is
\* found, has no entries and is not a default one, or the request is answered
\* at once.
BeginDeleteCategory(u, cid) ==
    /\ u \in users
    /\ pending = {}
    /\ IF DeleteCategoryStatus(u, cid) = "Ok"
       THEN /\ pending' = {InFlight("delete_category", u, cid, "", 0, "checked")}
            /\ UNCHANGED last
       ELSE /\ last' = Response("delete_category", u, DeleteCategoryStatus(u, cid))
            /\ UNCHANGED pending
    /\ UNCHANGED <<tokens, daily_goals, cache, now, users, categories,
                   diary_entries, food_items, custom_foods, custom_meals, nextId>>

\* db.commit() of delete_category, the flush: the session loads the entries of
\* the category (the backref of DiaryEntry.category, models/diary.py) to set
\* their category_id to NULL, which the column refuses: with an entry in the
\* category by now the request fails and is rolled back.
LoadDeleteCategory(t) ==
    /\ t \in pending
    /\ t.op = "delete_category" /\ t.step = "checked"
    /\ IF EntryCount(t.category_id) > 0
       THEN /\ last' = Response("delete_category", t.user, "ServerError")
            /\ pending' = pending \ {t}
       ELSE /\ pending' = (pending \ {t}) \cup {[t EXCEPT !.step = "loaded"]}
            /\ UNCHANGED last
    /\ UNCHANGED <<tokens, daily_goals, cache, now, users, categories,
                   diary_entries, food_items, custom_foods, custom_meals, nextId>>

\* db.commit() of delete_category, the DELETE and the commit: the row goes,
\* and with it, by ON DELETE CASCADE of diary_entries.category_id, every
\* entry of the category committed by now.
CommitDeleteCategory(t) ==
    /\ t \in pending
    /\ t.op = "delete_category" /\ t.step = "loaded"
    /\ categories' = Without(categories, t.category_id)
    /\ diary_entries' =
          [e \in {x \in DOMAIN diary_entries :
                     diary_entries[x].category_id # t.category_id}
              |-> diary_entries[e]]
    /\ last' = Response("delete_category", t.user, "Ok")
    /\ pending' = pending \ {t}
    /\ UNCHANGED <<tokens, daily_goals, cache, now, users, food_items,
                   custom_foods, custom_meals, nextId>>

\* A meal_categories table as the models declare it, without the constraint.
uq_user_category_nameUndeclared(u, name) == FALSE

\* Migration 000002, UniqueConstraint('user_id', 'name'): the database
\* refuses a second row with the user and name of an existing one.
uq_user_category_name(u, name) ==
    \E c \in UserCategoryIds(u) : categories[c].name = name

\* category.py create_category up to db.add(category): the name is looked up
\* and the display order read; the row's id is drawn.
BeginCreateCategory(u, rawName, order) ==
    /\ u \in users
    /\ Cardinality(pending) < 2
    /\ LET name == Strip(rawName) IN
       IF rawName = ""
       THEN /\ last' = Response("create_category", u, "InvalidInput")
            /\ UNCHANGED <<pending, nextId>>
       ELSE IF NameExists(u, name)
       THEN /\ last' = Response("create_category", u, "Conflict")
            /\ UNCHANGED <<pending, nextId>>
       ELSE /\ CanCreate
            /\ pending' = pending \cup
                 {InFlight("create_category", u,
                           CategoryId(nextId.category + 1), name,
                           IF order = None THEN NextDisplayOrder(u)
                           ELSE order[1],
                           "checked")}
            /\ nextId' = [nextId EXCEPT !.category = @ + 1, !.requests = @ + 1]
            /\ UNCHANGED last
    /\ UNCHANGED <<tokens, daily_goals, cache, now, users, categories,
                   diary_entries, food_items, custom_foods, custom_meals>>

\* db.commit() of create_category: the INSERT, which the unique constraint
\* may refuse; the IntegrityError is not caught and the request answers 500.
CommitCreateCategory(t) ==
    /\ t \in pending
    /\ t.op = "create_category" /\ t.step = "checked"
    /\ IF uq_user_category_name(t.user, t.name)
       THEN /\ last' = Response("create_category", t.user, "ServerError")
            /\ UNCHANGED categories
       ELSE /\ categories' = categories @@
                 (t.category_id :>
                     [user_id |-> t.user, name |-> t.name,
                      display_order |-> t.display_order, is_default |-> FALSE])
            /\ last' = Response("create_category", t.user, "Ok")
    /\ pending' = pending \ {t}
    /\ UNCHANGED <<tokens, daily_goals, cache, now, users, diary_entries,
                   food_items, custom_foods, custom_meals, nextId>>

\* Row ids a request can name: every id handed out so far in the table, and
\* 0, which no row ever has.
KnownCategoryIds == {0} \cup {CategoryId(n) : n \in 1 .. nextId.category}
KnownEntryIds == {0} \cup {EntryId(n) : n \in 1 .. nextId.entry}
KnownFoodIds == {0} \cup {FoodId(n) : n \in 1 .. nextId.food}
KnownMealIds == {0} \cup {MealId(n) : n \in 1 .. nextId.meal}

\* Nutrition bodies of custom-food and inline-food requests (macros in
\* hundredths of a gram).
FoodA == [name |-> "Oats", calories |-> 100, protein_g |-> 1000,
          carbs_g |-> 2000, fat_g |-> 500]
FoodB == [name |-> "Milk", calories |-> 101, protein_g |-> 25,
          carbs_g |-> 15, fat_g |-> 5]

CreateNames == {"", "Snack", "snack", "Snack ", "Lunch"}
RenameNames == {"Snack", "snack", "Lunch"}

\* The caller's category ids as the client lists them: by display_order, ids
\* breaking ties.
RECURSIVE Listed(_)
Listed(S) ==
    IF S = {} THEN <<>>
    ELSE LET m == CHOOSE x \in S : \A y \in S :
                      \/ categories[x].display_order < categories[y].display_order
                      \/ /\ categories[x].display_order = categories[y].display_order
                         /\ x <= y
         IN  <<m>> \o Listed(S \ {m})

Swapped(l, i) == [l EXCEPT ![i] = l[i + 1], ![i + 1] = l[i]]

\* Lists a reorder request can carry: the listed order with two neighbours
\* swapped (every permutation is a sequence of these), and the listed order
\* with one defect: its first id missing, its first id in place of its last,
\* its first id added again, an id that is not the caller's (x) in place of
\* the first, and x added.
ReorderLists(u) ==
    LET own == UserCategoryIds(u)
        a   == Listed(own)
    IN  IF a = <<>> THEN {}
        ELSE {Swapped(a, i) : i \in 1 .. Len(a) - 1}
             \cup {Tail(a), [a EXCEPT ![Len(a)] = a[1]], Append(a, a[1])}
             \cup UNION {{[a EXCEPT ![1] = x], Append(a, x)} :
                            x \in KnownCategoryIds \ own}

\* Items a meal request can carry: one or two items over the known food ids.
ItemQuantities == {500, 1000}
MealItemLists ==
    LET item == [food_id : KnownFoodIds \ {0}, quantity : ItemQuantities]
    IN  {<<i>> : i \in item} \cup {<<i, i>> : i \in item}

\* Items over several foods: a whole serving of one food and then one or two
\* part servings of another (0.004, 0.29 or 0.5 of a serving).
MixedItemLists ==
    LET ids  == KnownFoodIds \ {0}
        I(f, q) == [food_id |-> f, quantity |-> q]
    IN  {<<I(f, 1000), I(g, q)>> : f \in ids, g \in ids, q \in {4, 290, 500}}
        \cup {<<I(f, 1000), I(g, 500), I(g, 500)>> : f \in ids, g \in ids}

\* Two items: a whole serving of one food, then 0.004 or 0.5 of a serving of
\* a food.
PairItemLists ==
    LET ids == KnownFoodIds \ {0} IN
    {<<[food_id |-> f, quantity |-> 1000], [food_id |-> g, quantity |-> q]>> :
        f \in ids, g \in ids, q \in {4, 500}}

\* One whole serving of any known food id or of 0, or two of different ones.
AnyFoodItemLists ==
    LET I(f) == [food_id |-> f, quantity |-> 1000] IN
    {<<I(f)>> : f \in KnownFoodIds}
    \cup {<<I(p[1]), I(p[2])>> :
            p \in {q \in KnownFoodIds \X KnownFoodIds : q[1] # q[2]}}

\* The first category of every user, and 0.
FirstCategoryIds ==
    {0} \cup {CHOOSE c \in UserCategoryIds(u) : \A d \in UserCategoryIds(u) : c <= d :
                 u \in users}

\* -------------------------------------------------------- specifications

\* diary.py get_diary, "categories" of the response: the caller's categories
\* by display_order, each with the ids of the entries of the date grouped
\* under it.
get_diary_categories(u, diary_date) ==
    LET cats == Listed(UserCategoryIds(u)) IN
    [i \in DOMAIN cats |->
        [id |-> cats[i],
         display_order |-> categories[cats[i]].display_order,
         entries |-> {e \in DiaryEntriesOf(u, diary_date) :
                         diary_entries[e].category_id = cats[i]}]]

\* A step of a specification that leaves one of the MaxCreates creating
\* requests unused.
Frugal == nextId'.requests < MaxCreates

\* A step that leaves two of them unused.
Thrifty == nextId'.requests < MaxCreates - 1

\* In every specification u1 is the caller whose requests are explored, and u2
\* a second account, so that rows of another user exist.

\* Categories: create, delete and reorder.
NextCategories ==
    \/ \E u \in Users : Register(u)
    \/ \E o \in Optional({2}) : CreateCategory("u1", "Snack", o) /\ Frugal
    \/ \E c \in KnownCategoryIds : DeleteCategory("u1", c)
    \/ \E l \in ReorderLists("u1") : ReorderCategories("u1", l)

Spec == Init /\ [][NextCategories]_vars

\* Category names: register, create and rename.
NextNames ==
    \/ \E u \in Users : Register(u)
    \/ \E n \in CreateNames : CreateCategory("u1", n, None) /\ Frugal
    \/ \E c \in KnownCategoryIds, n \in Optional(RenameNames) :
          UpdateCategory("u1", c, n, None)

SpecNames == Init /\ [][NextNames]_vars

\* Categories with the diary: every category request and every diary request.
NextDiary ==
    \/ \E u \in Users : Register(u)
    \/ CreateCategory("u1", "Snack", None) /\ Frugal
    \/ \E c \in FirstCategoryIds : UpdateCategory("u1", c, Some("Brunch"), None)
    \/ \E c \in KnownCategoryIds : DeleteCategory("u1", c)
    \/ \E l \in {Listed(UserCategoryIds("u1"))} :
          ReorderCategories("u1", IF l = <<>> THEN l ELSE Swapped(l, 1))
    \/ \E c \in KnownCategoryIds :
          AddEntry("u1", 0, c, None, Some(FoodA), 1000) /\ Frugal
    \/ \E e \in KnownEntryIds, c \in FirstCategoryIds :
          UpdateEntry("u1", e, None, Some(c))
    \/ \E e \in KnownEntryIds : DeleteEntry("u1", e)

SpecDiary == Init /\ [][NextDiary]_vars

\* Diary entries: custom foods, and entries added, changed and removed.
EntryDates == {0, 1, MaxFutureDays + 1}
EntryQuantities == {0, 4, 290, 1000}
NextEntries ==
    \/ \E u \in Users : Register(u)
    \/ \E u \in Users : CreateCustomFood(u, FoodA) /\ Frugal
    \/ \E f \in KnownFoodIds : DeleteCustomFood("u1", f)
    \/ \E d \in EntryDates, c \in FirstCategoryIds,
          f \in Optional(KnownFoodIds), q \in EntryQuantities :
          AddEntry("u1", d, c, f, None, q) /\ Frugal
    \/ \E c \in FirstCategoryIds :
          AddEntry("u2", 0, c, None, Some(FoodB), 1000) /\ Frugal
    \/ \E e \in KnownEntryIds, q \in {0, 2000} :
          UpdateEntry("u1", e, Some(q), None)
    \/ \E e \in KnownEntryIds : DeleteEntry("u1", e)

SpecEntries == Init /\ [][NextEntries]_vars

\* Custom meals: foods, meals, and meals added to the diary.
NextMeals ==
    \/ \E u \in Users : Register(u)
    \/ \E u \in Users, food \in {FoodA, FoodB} :
          CreateCustomFood(u, food) /\ Frugal
    \/ \E f \in KnownFoodIds : DeleteCustomFood("u1", f)
    \/ \E n \in {"Bowl", " "}, items \in MealItemLists :
          CreateCustomMeal("u1", n, items) /\ Frugal
    \/ \E m \in KnownMealIds, n \in Optional({"Shake"}),
          items \in Optional(MealItemLists) :
          UpdateCustomMeal("u1", m, n, items)
    \/ \E m \in KnownMealIds : DeleteCustomMeal("u1", m)
    \/ \E m \in KnownMealIds, c \in KnownCategoryIds :
          AddMealToDiary("u1", 0, m, c) /\ Frugal

SpecMeals == Init /\ [][NextMeals]_vars

\* The life of a meal: it is created from a food, changed, added to the diary
\* and deleted, by its owner, and the requests go on after the deletion.
NextMealLife ==
    \/ Register("u1")
    \/ CreateCustomFood("u1", FoodA) /\ Frugal
    \/ \E items \in MealItemLists :
          CreateCustomMeal("u1", "Bowl", items) /\ Frugal
    \/ \E m \in KnownMealIds, n \in Optional({"Shake"}),
          items \in Optional(MealItemLists) :
          UpdateCustomMeal("u1", m, n, items)
    \/ \E m \in KnownMealIds : DeleteCustomMeal("u1", m)
    \/ \E m \in KnownMealIds, c \in KnownCategoryIds :
          AddMealToDiary("u1", 0, m, c) /\ Frugal

SpecMealLife == Init /\ [][NextMealLife]_vars

\* Meals over several foods of their owner, some of which are then deleted,
\* and the meals added to the diary.
MealDates == {0, MaxFutureDays + 1}
NextMealFoods ==
    \/ Register("u1")
    \/ \E food \in {FoodA, FoodB} : CreateCustomFood("u1", food)
    \/ \E f \in KnownFoodIds : DeleteCustomFood("u1", f)
    \/ \E items \in MixedItemLists : CreateCustomMeal("u1", "Bowl", items)
    \/ \E d \in MealDates, m \in KnownMealIds, c \in FirstCategoryIds :
          AddMealToDiary("u1", d, m, c)

SpecMealFoods == Init /\ [][NextMealFoods]_vars

\* Meals of two items added to the diary, before and after a food of theirs
\* is deleted.
NextAddMeal ==
    \/ Register("u1")
    \/ CreateCustomFood("u1", FoodA)
    \/ \E f \in KnownFoodIds : DeleteCustomFood("u1", f)
    \/ \E items \in PairItemLists : CreateCustomMeal("u1", "Bowl", items)
    \/ \E d \in MealDates, m \in KnownMealIds, c \in FirstCategoryIds :
          AddMealToDiary("u1", d, m, c)

SpecAddMeal == Init /\ [][NextAddMeal]_vars

\* The items of a meal: meals of two or three items are created, renamed and
\* given new items.
NextMealItems ==
    \/ Register("u1")
    \/ CreateCustomFood("u1", FoodA)
    \/ \E items \in MixedItemLists : CreateCustomMeal("u1", "Bowl", items)
    \/ \E m \in KnownMealIds, n \in Optional({"Shake"}),
          items \in Optional(PairItemLists) :
          UpdateCustomMeal("u1", m, n, items)

SpecMealItems == Init /\ [][NextMealItems]_vars

\* Foods of two users in meals of one: both users create custom foods, u2
\* creates a food item inline, and u1 creates and changes meals over every
\* known food id.
NextMealAccess ==
    \/ \E u \in Users : Register(u)
    \/ \E u \in Users : CreateCustomFood(u, FoodA) /\ Frugal
    \/ \E c \in FirstCategoryIds \ {0} :
          AddEntry("u2", 0, c, None, Some(FoodB), 1000) /\ Frugal
    \/ \E items \in AnyFoodItemLists :
          CreateCustomMeal("u1", "Bowl", items) /\ Frugal
    \/ \E m \in KnownMealIds, items \in AnyFoodItemLists :
          UpdateCustomMeal("u1", m, None, Some(items))

SpecMealAccess == Init /\ [][NextMealAccess]_vars

\* Two accounts with rows of their own, and u1 naming every row id in the
\* requests that take one.
OneItemLists == {<<[food_id |-> f, quantity |-> 1000]>> : f \in KnownFoodIds}
NextForeign ==
    \/ \E u \in Users : Register(u)
    \/ \E u \in Users : CreateCustomFood(u, FoodA) /\ Thrifty
    \/ \E u \in Users : \E c \in FirstCategoryIds \cap UserCategoryIds(u) :
          AddEntry(u, 0, c, None, Some(FoodB), 1000) /\ Thrifty
    \/ \E u \in Users, items \in OneItemLists :
          CreateCustomMeal(u, "Bowl", items) /\ Thrifty
    \/ \E c \in FirstCategoryIds : UpdateCategory("u1", c, Some("Brunch"), None)
    \/ \E c \in FirstCategoryIds : DeleteCategory("u1", c)
    \/ \E e \in KnownEntryIds, c \in Optional(FirstCategoryIds) :
          UpdateEntry("u1", e, Some(2000), c)
    \/ \E e \in KnownEntryIds : DeleteEntry("u1", e)
    \/ \E f \in KnownFoodIds, n \in {Some("Bran"), Some(" ")} :
          UpdateCustomFood("u1", f, n, Some(90))
    \/ \E f \in KnownFoodIds : DeleteCustomFood("u1", f)
    \/ \E m \in KnownMealIds : UpdateCustomMeal("u1", m, Some("Shake"), None)
    \/ \E m \in KnownMealIds : DeleteCustomMeal("u1", m)
    \/ \E m \in KnownMealIds, c \in FirstCategoryIds :
          AddMealToDiary("u1", 0, m, c) /\ Thrifty

SpecForeign == Init /\ [][NextForeign]_vars

\* Accounts: rows of every table, and accounts deleted.  No more accounts are
\* registered than there are users.
FewAccounts == nextId.category < Len(default_categories) * Cardinality(Users)
NextAccount ==
    \/ \E u \in Users : Register(u) /\ FewAccounts
    \/ \E u \in Users, calories \in Optional({100, 2000}) : SetGoals(u, calories)
    \/ \E u \in Users : CreateCustomFood(u, FoodA) /\ Frugal
    \/ \E u \in Users, items \in OneItemLists :
          CreateCustomMeal(u, "Bowl", items) /\ Frugal
    \/ \E u \in Users : \E c \in FirstCategoryIds \cap UserCategoryIds(u) :
          AddEntry(u, 0, c, None, Some(FoodB), 1000) /\ Frugal
    \/ \E u \in Users, e \in KnownEntryIds : DeleteEntry(u, e)
    \/ \E u \in Users : DeleteAccount(u)

SpecAccount == Init /\ [][NextAccount]_vars

\* Food search: custom foods, searches that match them, and the clock.
Queries == {" ", "oat", "OAT"}
Limits == {1, 2}
NextSearch ==
    \/ Register("u1") /\ now = 0
    \/ \E food \in {FoodA, FoodB} : CreateCustomFood("u1", food) /\ Thrifty
    \/ \E q \in Queries, limit \in Limits :
          \E usda \in USDAAnswers(limit),
             custom_list \in OrderedByName(SearchCustomFoods("u1", q)) :
             Search("u1", q, limit, custom_list, usda)
    \/ Tick

SpecSearch == Init /\ [][NextSearch]_vars

\* Food search while the USDA service is down or answers a full page, within
\* one lifetime of the cache.
NextSearchFail ==
    \/ Register("u1")
    \/ \E food \in {FoodA, FoodB} : CreateCustomFood("u1", food) /\ Thrifty
    \/ \E q \in Queries, limit \in Limits :
          \E usda \in {None, Some(limit)},
             custom_list \in OrderedByName(SearchCustomFoods("u1", q)) :
             Search("u1", q, limit, custom_list, usda)

SpecSearchFail == Init /\ [][NextSearchFail]_vars

\* Registration, login and token refresh while the clock runs.
NextAuth ==
    \/ \E u \in Users : Register(u)
    \/ \E u \in Users, password_ok \in BOOLEAN : Login(u, password_ok)
    \/ \E refresh_token \in tokens : RefreshTokens(refresh_token)
    \/ Tick
SpecAuth == Init /\ [][NextAuth]_vars

\* Reordering the categories of an account that has diary entries, beside
\* another account with categories and entries of its own.
NextReorder ==
    \/ \E u \in Users : Register(u)
    \/ CreateCategory("u1", "Snack", None) /\ Thrifty
    \/ \E u \in Users, c \in FirstCategoryIds :
          AddEntry(u, 0, c, None, Some(FoodA), 1000) /\ Thrifty
    \/ \E l \in ReorderLists("u1") : ReorderCategories("u1", l)
SpecReorder == Init /\ [][NextReorder]_vars

\* Meal requests that fail at every step of the validation: names that are
\* empty or blank, lists that are empty, name a food that does not resolve or
\* carry a quantity of zero.
AtomicItemLists ==
    LET I(f, q) == [food_id |-> f, quantity |-> q] IN
    {<<>>} \cup {<<I(f, 1000)>> : f \in KnownFoodIds}
           \cup {<<I(f, 1000), I(g, q)>> :
                    f \in KnownFoodIds \ {0}, g \in KnownFoodIds, q \in {0, 500}}

NextMealAtomic ==
    \/ Register("u1")
    \/ CreateCustomFood("u1", FoodA) /\ Frugal
    \/ \E f \in KnownFoodIds : DeleteCustomFood("u1", f)
    \/ \E n \in {"Bowl", " ", ""}, items \in AtomicItemLists :
          CreateCustomMeal("u1", n, items) /\ Frugal
    \/ \E m \in KnownMealIds, n \in Optional({"Shake", " ", ""}),
          items \in Optional(AtomicItemLists) :
          UpdateCustomMeal("u1", m, n, items)
SpecMealAtomic == Init /\ [][NextMealAtomic]_vars

\* A category deleted while entries are added to it or moved into it.
NextDeleteRace ==
    \/ Register("u1")
    \/ CreateCategory("u1", "Snack", None) /\ Thrifty
    \/ \E c \in KnownCategoryIds :
          AddEntry("u1", 0, c, None, Some(FoodA), 1000) /\ Thrifty
    \/ \E e \in KnownEntryIds, c \in KnownCategoryIds :
          UpdateEntry("u1", e, None, Some(c))
    \/ \E c \in KnownCategoryIds : BeginDeleteCategory("u1", c)
    \/ \E t \in pending : LoadDeleteCategory(t)
    \/ \E t \in pending : CommitDeleteCategory(t)
SpecDeleteRace == Init /\ [][NextDeleteRace]_vars

\* Two create_category requests at a time, with names that may be the same.
NextCreateRace ==
    \/ Register("u1")
    \/ \E n \in {"Snack", "Brunch", "Lunch", ""} :
          BeginCreateCategory("u1", n, None)
    \/ \E t \in pending : CommitCreateCategory(t)
SpecCreateRace == Init /\ [][NextCreateRace]_vars

\* Two users with custom foods of their own who search for the same words,
\* within and beyond the lifetime of the cache.
NextSearchUsers ==
    \/ \E u \in Users : Register(u) /\ now = 0
    \/ \E u \in Users : CreateCustomFood(u, FoodA) /\ Thrifty
    \/ \E u \in Users, q \in {"oat", "OAT"}, limit \in Limits :
          \E usda \in {None, Some(1)},
             custom_list \in OrderedByName(SearchCustomFoods(u, q)) :
             Search(u, q, limit, custom_list, usda)
    \/ Tick
SpecSearchUsers == Init /\ [][NextSearchUsers]_vars

\* calculate_entry_macros, a static method, called on its own: `last` holds
\* the arguments, and then the result.  The quantity is a float with two
\* decimal places, given in hundredths.
MaxQuantity == 100
MacroFoods ==
    {FoodA, FoodB}
    \cup {[name |-> "Rice", calories |-> c, protein_g |-> p, carbs_g |-> 2850,
           fat_g |-> 0] : c \in {0, 1, 15, 50}, p \in {1, 333}}

InitMacro ==
    /\ users = {}
    /\ categories = <<>>
    /\ diary_entries = <<>>
    /\ food_items = <<>>
    /\ custom_foods = <<>>
    /\ custom_meals = <<>>
    /\ nextId = [category |-> 0, entry |-> 0, food |-> 0, meal |-> 0,
                 requests |-> 0]
    /\ daily_goals = <<>>
    /\ cache = <<>>
    /\ now = 0
    /\ tokens = {}
    /\ pending = {}
    /\ last \in [op : {"calculate_entry_macros"}, user : {""}, status : {"Called"},
                 food : MacroFoods, quantity : 1 .. MaxQuantity,
                 result : {ZeroTotals}]

CalculateEntryMacros ==
    /\ last.op = "calculate_entry_macros"
    /\ last.status = "Called"
    /\ last' = [last EXCEPT
                  !.status = "Ok",
                  !.result = calculate_entry_macros(last.food,
                                                    QuantityFloat(last.quantity))]
    /\ UNCHANGED <<pending, tokens, daily_goals, cache, now, users, categories, diary_entries, food_items, custom_foods,
                   custom_meals, nextId>>

SpecMacro == InitMacro /\ [][CalculateEntryMacros]_vars

\* ----------------------------------------------------------- properties

\* The categories of u, and those of them that are default.
CategoriesOf(cats, u) == {c \in DOMAIN cats : cats[c].user_id = u}
DefaultsOf(cats, u) == {c \in CategoriesOf(cats, u) : cats[c].is_default}
EntriesIn(c) == {e \in DOMAIN diary_entries : diary_entries[e].category_id = c}

\* C1: a reorder request with the list ids succeeds exactly when the set of
\* ids is the set of the caller's category ids and no id occurs twice in ids;
\* after a success every category of the caller has display_order equal to
\* its position in ids, counted from 1.
C1_Reorder ==
    [][\A ids \in ReorderLists("u1") :
          ReorderCategories("u1", ids) =>
            LET bijection ==
                    /\ {ids[i] : i \in DOMAIN ids} = CategoriesOf(categories, "u1")
                    /\ \A i, j \in DOMAIN ids : ids[i] = ids[j] => i = j
            IN  /\ last'.status = "Ok" <=> bijection
                /\ last'.status = "Ok" =>
                     /\ CategoriesOf(categories', "u1") = CategoriesOf(categories, "u1")
                     /\ \A i \in DOMAIN ids : categories'[ids[i]].display_order = i
       ]_vars

\* A reorder has put Dinner first among four categories.
C1_Witness ==
    /\ last = Response("reorder_categories", "u1", "Ok")
    /\ Cardinality(CategoriesOf(categories, "u1")) = 4
    /\ \E c \in CategoriesOf(categories, "u1") :
          categories[c].name = "Dinner" /\ categories[c].display_order = 1

\* C2: every registered user has exactly three default categories, the three
\* rows created at registration as Breakfast, Lunch and Dinner with display
\* orders 1, 2 and 3: no request adds or removes a default category of a
\* registered user; deleting a default category never succeeds, and is
\* Forbidden when the category has no entries.
C2_Defaults ==
    [][/\ \A u \in Users :
            Register(u) /\ last'.status = "Ok" =>
              /\ Cardinality(DefaultsOf(categories', u)) = Len(default_categories)
              /\ \A i \in DOMAIN default_categories :
                    \E c \in DefaultsOf(categories', u) :
                       /\ categories'[c].name = default_categories[i][1]
                       /\ categories'[c].display_order = default_categories[i][2]
       /\ \A u \in users :
            /\ Cardinality(DefaultsOf(categories, u)) = 3
            /\ DefaultsOf(categories', u) = DefaultsOf(categories, u)
       /\ \A c \in DefaultsOf(categories, "u1") :
            DeleteCategory("u1", c) =>
              /\ last'.status # "Ok"
              /\ EntriesIn(c) = {} => last'.status = "Forbidden"
       ]_vars

\* A default category without entries was refused, after the caller's
\* categories were renamed, reordered and used in the diary.
C2_Witness ==
    /\ last = Response("delete_category", "u1", "Forbidden")
    /\ \E c \in DefaultsOf(categories, "u1") : categories[c].name = "Brunch"
    /\ \E c \in DefaultsOf(categories, "u1") :
          categories[c].name = "Lunch" /\ categories[c].display_order = 1
    /\ DOMAIN diary_entries # {}

\* C3: deleting a category that has an entry is a Conflict and leaves the
\* categories and the entries as they are; update_entry moves an entry to the
\* category it names; and deleting a non-default category of the caller that
\* no entry is in any more succeeds and removes the category.
C3_DeleteAfterMove ==
    [][/\ \A c \in CategoriesOf(categories, "u1") :
            DeleteCategory("u1", c) =>
              /\ EntriesIn(c) # {} =>
                    /\ last'.status = "Conflict"
                    /\ categories' = categories
                    /\ diary_entries' = diary_entries
              /\ EntriesIn(c) = {} /\ ~categories[c].is_default =>
                    /\ last'.status = "Ok"
                    /\ c \notin DOMAIN categories'
       /\ \A e \in DOMAIN diary_entries, c \in FirstCategoryIds :
            UpdateEntry("u1", e, None, Some(c)) /\ last'.status = "Ok" =>
              /\ diary_entries'[e].category_id = c
              /\ \A d \in DOMAIN categories \ {c} :
                    {x \in DOMAIN diary_entries' : diary_entries'[x].category_id = d}
                        = EntriesIn(d) \ {e}
       ]_vars

\* A category that was created was deleted while the caller has an entry, in
\* another category.
C3_Witness ==
    /\ last = Response("delete_category", "u1", "Ok")
    /\ \E e \in DOMAIN diary_entries : diary_entries[e].user_id = "u1"
    /\ nextId.category > Cardinality(DOMAIN categories)

\* C4: the outcome of delete_category is NotFound when the category is absent
\* or not the caller's, whatever else holds; Conflict when it is a default
\* category of the caller with an entry; and Forbidden exactly when it is a
\* default category of the caller without entries.
C4_DeletePrecedence ==
    [][\A c \in KnownCategoryIds :
          DeleteCategory("u1", c) =>
            LET owned == c \in CategoriesOf(categories, "u1")
            IN  /\ ~owned => last'.status = "NotFound"
                /\ owned /\ categories[c].is_default /\ EntriesIn(c) # {} =>
                     last'.status = "Conflict"
                /\ last'.status = "Forbidden" <=>
                     owned /\ categories[c].is_default /\ EntriesIn(c) = {}
       ]_vars

\* A delete was a Conflict when the only categories with entries are default.
C4_Witness ==
    /\ last = Response("delete_category", "u1", "Conflict")
    /\ \A e \in DOMAIN diary_entries :
          categories[diary_entries[e].category_id].is_default

\* C5: no two categories of a user have the same name, compared with regard
\* to case; a create or a rename to a name another category of the caller has
\* is a Conflict and changes nothing; a rename of a category to the name it
\* has succeeds; a name that differs from the existing ones, if only in the
\* case of its letters, is accepted.
C5_UniqueNames ==
    /\ [](\A c, d \in DOMAIN categories :
             /\ categories[c].user_id = categories[d].user_id
             /\ categories[c].name = categories[d].name
             => c = d)
    /\ [][LET names == {categories[c].name : c \in CategoriesOf(categories, "u1")}
          IN  /\ \A n \in CreateNames \ {""} :
                   CreateCategory("u1", n, None) =>
                     IF Strip(n) \in names
                     THEN last'.status = "Conflict" /\ categories' = categories
                     ELSE last'.status = "Ok"
              /\ \A c \in CategoriesOf(categories, "u1"), n \in RenameNames :
                   UpdateCategory("u1", c, Some(n), None) =>
                     IF n \in names \ {categories[c].name}
                     THEN last'.status = "Conflict" /\ categories' = categories
                     ELSE last'.status = "Ok" /\ categories'[c].name = n
         ]_vars

\* A create was a Conflict while the caller has both Snack and snack.
C5_Witness ==
    /\ last = Response("create_category", "u1", "Conflict")
    /\ {"Snack", "snack"} \subseteq
          {categories[c].name : c \in CategoriesOf(categories, "u1")}

\* The macro arithmetic of a food and a quantity in hundredths: the calories
\* are the product, truncated to an integer; the macros are the products, in
\* ten-thousandths.
Macros(food, quantity) ==
    [calories  |-> (food.calories * quantity) \div 100,
     protein_g |-> food.protein_g * quantity,
     carbs_g   |-> food.carbs_g * quantity,
     fat_g     |-> food.fat_g * quantity]

\* C6: add_entry is InvalidInput when the quantity is not positive or the
\* date is more than MaxFutureDays ahead, NotFound when the category is not
\* the caller's and when the food id names neither a custom food nor a food
\* item; a rejected request leaves the entries as they are, and any other
\* inserts exactly one entry, with the caller, date, category, food id and
\* quantity of the request.
C6_AddEntry ==
    [][\A d \in EntryDates, c \in FirstCategoryIds, f \in KnownFoodIds,
          q \in EntryQuantities :
          AddEntry("u1", d, c, Some(f), None, q) =>
            LET invalid == q <= 0 \/ d > MaxFutureDays
                missing == \/ c \notin CategoriesOf(categories, "u1")
                           \/ f \notin DOMAIN custom_foods \cup DOMAIN food_items
            IN  /\ invalid => last'.status = "InvalidInput"
                /\ ~invalid /\ missing => last'.status = "NotFound"
                /\ invalid \/ missing => diary_entries' = diary_entries
                /\ ~invalid /\ ~missing =>
                     /\ last'.status = "Ok"
                     /\ \E e \in DOMAIN diary_entries' \ DOMAIN diary_entries :
                          /\ DOMAIN diary_entries' = DOMAIN diary_entries \cup {e}
                          /\ \A x \in DOMAIN diary_entries :
                                diary_entries'[x] = diary_entries[x]
                          /\ diary_entries'[e].user_id = "u1"
                          /\ diary_entries'[e].entry_date = d
                          /\ diary_entries'[e].category_id = c
                          /\ diary_entries'[e].food_id = f
                          /\ 10 * diary_entries'[e].quantity = q
       ]_vars

\* The sum of Macros over a set of entries whose food resolves.
RECURSIVE SumMacros(_)
SumMacros(entries) ==
    IF entries = {} THEN ZeroTotals
    ELSE LET e    == CHOOSE x \in entries : TRUE
             rest == SumMacros(entries \ {e})
             m    == Macros(GetFood(diary_entries[e].food_id)[1],
                            diary_entries[e].quantity)
         IN  [calories  |-> rest.calories + m.calories,
              protein_g |-> rest.protein_g + m.protein_g,
              carbs_g   |-> rest.carbs_g + m.carbs_g,
              fat_g     |-> rest.fat_g + m.fat_g]

\* C7: for every user and date the totals of get_diary are the sum of Macros
\* over the entries of that user and date whose food resolves; the other
\* entries contribute nothing.
C7_DiaryTotals ==
    \A u \in Users, d \in EntryDates :
        LET resolved ==
                {e \in DOMAIN diary_entries :
                    /\ diary_entries[e].user_id = u
                    /\ diary_entries[e].entry_date = d
                    /\ diary_entries[e].food_id
                          \in DOMAIN custom_foods \cup DOMAIN food_items}
            sum == SumMacros(resolved)
        IN  get_diary_totals(u, d) =
                [calories  |-> sum.calories,
                 protein_g |-> FromRatio(sum.protein_g, 10000),
                 carbs_g   |-> FromRatio(sum.carbs_g, 10000),
                 fat_g     |-> FromRatio(sum.fat_g, 10000)]

\* C8: for every food F and quantity q > 0 with two decimal places,
\* calculate_entry_macros(F, q) is q times calculate_entry_macros(F, 1): the
\* macros are F's macros times q, not rounded, and the calories are
\* F.calories times q, truncated to an integer.
C8_EntryMacros ==
    last.op = "calculate_entry_macros" /\ last.status = "Ok" =>
        LET unit == calculate_entry_macros(last.food, QuantityFloat(100))
        IN  /\ last.result = Macros(last.food, last.quantity)
            /\ last.result =
                 [calories  |-> (unit.calories * last.quantity) \div 100,
                  protein_g |-> (unit.protein_g * last.quantity) \div 100,
                  carbs_g   |-> (unit.carbs_g * last.quantity) \div 100,
                  fat_g     |-> (unit.fat_g * last.quantity) \div 100]

\* The sum of a field over the items of a meal view.
RECURSIVE SumItems(_, _)
SumItems(values, n) ==
    IF n = 0 THEN 0 ELSE SumItems(values, n - 1) + values[n]

\* What an item of a meal contributes to a field: nothing when its food is
\* gone.
ItemMacros(item) ==
    IF GetFood(item.food_id) = None THEN ZeroTotals
    ELSE Macros(GetFood(item.food_id)[1], item.quantity)

Distance(a, b) == IF a < b THEN b - a ELSE a - b

\* C9: in the view of a meal, the totals are the sums over the items whose
\* food resolves of floor(calories * quantity) and of macro * quantity (shown
\* with two decimals), and totals.calories is the sum of the calories that
\* the same view shows for its items.
C9_MealTotals ==
    \A m \in DOMAIN custom_meals :
        LET view  == from_model(m)
            items == custom_meals[m].items
            n     == Len(items)
        IN  /\ view.totals.calories =
                  SumItems([i \in 1 .. n |-> ItemMacros(items[i]).calories], n)
            /\ view.totals.calories =
                  SumItems([i \in 1 .. n |-> view.items[i].calories], n)
            /\ Distance(100 * view.totals.protein_g,
                  SumItems([i \in 1 .. n |-> ItemMacros(items[i]).protein_g], n)) <= 50
            /\ Distance(100 * view.totals.carbs_g,
                  SumItems([i \in 1 .. n |-> ItemMacros(items[i]).carbs_g], n)) <= 50
            /\ Distance(100 * view.totals.fat_g,
                  SumItems([i \in 1 .. n |-> ItemMacros(items[i]).fat_g], n)) <= 50

\* C11: a meal with an item whose food is gone can still be got; its view
\* lists that item with the stored food id and quantity, flagged is_deleted
\* and with zero calories and macros, flags no other item, and its totals are
\* the sums of floor(calories * quantity) and of macro * quantity (shown with
\* two decimals) over the items whose food resolves.
C11_DeletedFood ==
    \A m \in DOMAIN custom_meals :
        LET view  == from_model(m)
            items == custom_meals[m].items
            n     == Len(items)
            gone  == {i \in 1 .. n : GetFood(items[i].food_id) = None}
        IN  gone # {} /\ ~custom_meals[m].is_deleted =>
              /\ GetCustomMealStatus(custom_meals[m].user_id, m) = "Ok"
              /\ Len(view.items) = n
              /\ \A i \in 1 .. n :
                    /\ view.items[i].food_id = items[i].food_id
                    /\ Round2(view.items[i].quantity) = items[i].quantity
                    /\ view.items[i].is_deleted = (i \in gone)
              /\ \A i \in gone :
                    /\ view.items[i].calories = 0
                    /\ view.items[i].protein_g = FromInt(0)
                    /\ view.items[i].carbs_g = FromInt(0)
                    /\ view.items[i].fat_g = FromInt(0)
              /\ view.totals.calories =
                    SumItems([i \in 1 .. n |->
                                IF i \in gone THEN 0
                                ELSE ItemMacros(items[i]).calories], n)
              /\ Distance(100 * view.totals.protein_g,
                    SumItems([i \in 1 .. n |->
                                IF i \in gone THEN 0
                                ELSE ItemMacros(items[i]).protein_g], n)) <= 50
              /\ Distance(100 * view.totals.carbs_g,
                    SumItems([i \in 1 .. n |->
                                IF i \in gone THEN 0
                                ELSE ItemMacros(items[i]).carbs_g], n)) <= 50
              /\ Distance(100 * view.totals.fat_g,
                    SumItems([i \in 1 .. n |->
                                IF i \in gone THEN 0
                                ELSE ItemMacros(items[i]).fat_g], n)) <= 50

\* The entries that a step adds.
NewEntries == DOMAIN diary_entries' \ DOMAIN diary_entries

\* A step adds one entry for each of the first k items of the meal m, with
\* the item's food id and quantity, the caller u, the date d and the category
\* c, and leaves every other entry as it was.
AddsEntriesFor(u, d, m, c, k) ==
    LET items == custom_meals[m].items IN
    /\ \A e \in DOMAIN diary_entries :
          e \in DOMAIN diary_entries' /\ diary_entries'[e] = diary_entries[e]
    /\ Cardinality(NewEntries) = k
    /\ \E f \in [1 .. k -> NewEntries] :
          /\ \A i, j \in 1 .. k : f[i] = f[j] => i = j
          /\ \A i \in 1 .. k :
                diary_entries'[f[i]] =
                    [user_id |-> u, category_id |-> c, entry_date |-> d,
                     food_id |-> items[i].food_id,
                     quantity |-> items[i].quantity]

\* Whether the food of every item of the meal m resolves.
AllFoodsResolve(m) ==
    \A i \in DOMAIN custom_meals[m].items :
        GetFood(custom_meals[m].items[i].food_id) # None

\* C12: add-meal-to-diary on a meal of the caller that is not deleted, with
\* a category of the caller and every item's food resolving, adds exactly one
\* entry per item, with the item's food id and quantity, the given date and
\* category and the caller, and changes no other entry.  The date is one
\* that add_entry accepts.
C12_AddMeal ==
    [][\A d \in MealDates, m \in KnownMealIds, c \in FirstCategoryIds :
          /\ AddMealToDiary("u1", d, m, c)
          /\ GetCustomMeal("u1", m)
          /\ GetCategory("u1", c)
          /\ AllFoodsResolve(m)
          /\ d <= MaxFutureDays
          => /\ last'.status = "Ok"
             /\ AddsEntriesFor("u1", d, m, c, Len(custom_meals[m].items))
       ]_vars

\* The same for the meals whose stored item quantities are all positive.
AddMealOfPositiveItems ==
    [][\A d \in MealDates, m \in KnownMealIds, c \in FirstCategoryIds :
          /\ AddMealToDiary("u1", d, m, c)
          /\ GetCustomMeal("u1", m)
          /\ GetCategory("u1", c)
          /\ AllFoodsResolve(m)
          /\ d <= MaxFutureDays
          /\ \A i \in DOMAIN custom_meals[m].items :
                custom_meals[m].items[i].quantity > 0
          => /\ last'.status = "Ok"
             /\ AddsEntriesFor("u1", d, m, c, Len(custom_meals[m].items))
       ]_vars

\* A meal of three items was added to the diary: three entries, of two foods.
C12_Witness ==
    /\ last = Response("add_meal_to_diary", "u1", "Ok")
    /\ Cardinality(DOMAIN diary_entries) = 3
    /\ Cardinality({diary_entries[e].food_id : e \in DOMAIN diary_entries}) = 2

\* What add_entry answers for an item, from the claim: InvalidInput for a
\* quantity that is not positive or a date too far ahead, NotFound for a
\* category that is not the caller's or a food that does not resolve.
ItemError(u, d, c, item) ==
    IF item.quantity <= 0 \/ d > MaxFutureDays THEN "InvalidInput"
    ELSE IF c \notin CategoriesOf(categories, u) \/ GetFood(item.food_id) = None
    THEN "NotFound"
    ELSE "Ok"

\* C13: when add_entry fails for the k-th item of the meal, add-meal-to-diary
\* fails with that error, the entries of the items before the k-th are added
\* and stay, and no entry is added for the k-th item or a later one.
C13_BestEffort ==
    [][\A d \in MealDates, m \in KnownMealIds, c \in FirstCategoryIds :
          AddMealToDiary("u1", d, m, c) /\ GetCustomMeal("u1", m) =>
            LET items == custom_meals[m].items IN
            \A k \in DOMAIN items :
                /\ ItemError("u1", d, c, items[k]) # "Ok"
                /\ \A i \in 1 .. k - 1 : ItemError("u1", d, c, items[i]) = "Ok"
                => /\ last'.status = ItemError("u1", d, c, items[k])
                   /\ AddsEntriesFor("u1", d, m, c, k - 1)
       ]_vars

\* Adding a meal failed at its second item, whose food is gone, and the entry
\* of its first item is in the diary.
C13_Witness ==
    /\ last = Response("add_meal_to_diary", "u1", "NotFound")
    /\ Cardinality(DOMAIN diary_entries) = 1
    /\ \E m \in DOMAIN custom_meals :
          /\ Len(custom_meals[m].items) >= 2
          /\ GetFood(custom_meals[m].items[1].food_id) # None
          /\ GetFood(custom_meals[m].items[2].food_id) = None
          /\ \E e \in DOMAIN diary_entries :
                diary_entries[e].food_id = custom_meals[m].items[1].food_id

\* The item rows of a meal are the items of a request, in order: the same
\* food ids, and quantities (stored in hundredths, requested in thousandths)
\* that are equal, or equal once the request's are rounded to two decimals.
ItemsAre(rows, items, rounded) ==
    /\ Len(rows) = Len(items)
    /\ \A i \in DOMAIN items :
          /\ rows[i].food_id = items[i].food_id
          /\ IF rounded THEN rows[i].quantity = (items[i].quantity + 5) \div 10
             ELSE 10 * rows[i].quantity = items[i].quantity

\* C14: after a successful update_custom_meal with an item list, the item
\* rows of the meal are exactly the (food_id, quantity) pairs of the list,
\* none of the earlier rows staying or being merged in; an update with a name
\* only leaves the item rows as they are.
C14_ReplaceItems ==
    [][\A m \in KnownMealIds, n \in Optional({"Shake"}),
          items \in Optional(PairItemLists) :
          UpdateCustomMeal("u1", m, n, items) /\ last'.status = "Ok" =>
            IF items = None
            THEN custom_meals'[m].items = custom_meals[m].items
            ELSE ItemsAre(custom_meals'[m].items, items[1], FALSE)
       ]_vars

\* The same, with the quantities of the list rounded to the two decimals of
\* the column.
ReplaceItemsRounded ==
    [][\A m \in KnownMealIds, n \in Optional({"Shake"}),
          items \in Optional(PairItemLists) :
          UpdateCustomMeal("u1", m, n, items) /\ last'.status = "Ok" =>
            IF items = None
            THEN custom_meals'[m].items = custom_meals[m].items
            ELSE ItemsAre(custom_meals'[m].items, items[1], TRUE)
       ]_vars

\* A meal made with three items of one food has, after an update, two items
\* of another.
C14_Witness ==
    /\ last = Response("update_custom_meal", "u1", "Ok")
    /\ nextId.food = 2 /\ nextId.meal = 1 /\ nextId.requests = 3
    /\ Len(custom_meals[MealId(1)].items) = 2
    /\ \A i \in 1 .. 2 : custom_meals[MealId(1)].items[i].food_id = FoodId(2)

\* A food id that a meal of the user u may name: a food item, whoever created
\* it, or a custom food of u.
MayName(u, food_id) ==
    \/ food_id \in DOMAIN food_items
    \/ food_id \in DOMAIN custom_foods /\ custom_foods[food_id].user_id = u

\* C15: create_custom_meal and update_custom_meal accept items that name a
\* food item of any creator or a custom food of the caller, and reject with
\* InvalidInput, storing nothing, a list with an item that names a custom
\* food of another user or no food at all; so the items a request stores
\* never name, when they are stored, a custom food of another user.
C15_MealFoods ==
    [][/\ \A items \in AnyFoodItemLists :
            CreateCustomMeal("u1", "Bowl", items) =>
              IF \A i \in DOMAIN items : MayName("u1", items[i].food_id)
              THEN /\ last'.status = "Ok"
                   /\ \E m \in DOMAIN custom_meals' \ DOMAIN custom_meals :
                         /\ custom_meals'[m].user_id = "u1"
                         /\ ItemsAre(custom_meals'[m].items, items, FALSE)
              ELSE /\ last'.status = "InvalidInput"
                   /\ custom_meals' = custom_meals
       /\ \A m \in KnownMealIds, items \in AnyFoodItemLists :
            UpdateCustomMeal("u1", m, None, Some(items)) /\ GetCustomMeal("u1", m) =>
              IF \A i \in DOMAIN items : MayName("u1", items[i].food_id)
              THEN /\ last'.status = "Ok"
                   /\ ItemsAre(custom_meals'[m].items, items, FALSE)
              ELSE /\ last'.status = "InvalidInput"
                   /\ custom_meals' = custom_meals
       /\ \A m \in DOMAIN custom_meals' :
            m \notin DOMAIN custom_meals \/ custom_meals'[m] # custom_meals[m] =>
              \A i \in DOMAIN custom_meals'[m].items :
                 LET f == custom_meals'[m].items[i].food_id IN
                 f \in DOMAIN custom_foods' =>
                   custom_foods'[f].user_id = custom_meals'[m].user_id
       ]_vars

\* A meal of u1 names the food item that u2 created, u2 has a custom food,
\* and an update of the meal was rejected.
C15_Witness ==
    /\ last = Response("update_custom_meal", "u1", "InvalidInput")
    /\ \E f \in DOMAIN custom_foods : custom_foods[f].user_id = "u2"
    /\ \E m \in DOMAIN custom_meals :
          /\ custom_meals[m].user_id = "u1"
          /\ \E i \in DOMAIN custom_meals[m].items :
                LET f == custom_meals[m].items[i].food_id IN
                f \in DOMAIN food_items /\ food_items[f].created_by_user_id = "u2"

\* The dates that entries are on.
DiaryDates == {diary_entries[e].entry_date : e \in DOMAIN diary_entries}

\* C16: a custom food is not visible to other users: nothing that a user can
\* get (a custom food by its id, the entries of a diary, the items of a meal)
\* shows the name or the nutrition values of a custom food of another user.
C16_PrivateFoods ==
    \A b \in users, f \in DOMAIN custom_foods :
        custom_foods[f].user_id # b =>
          /\ ~GetCustomFood(b, f)
          /\ \A d \in DiaryDates : \A r \in get_diary_entries(b, d) :
                r.food.id = f =>
                  /\ r.food.name # custom_foods[f].name
                  /\ r.food.calories # custom_foods[f].calories
                  /\ r.food.protein_g # FromRatio(custom_foods[f].protein_g, 100)
          /\ \A m \in GetCustomMeals(b) : \A i \in DOMAIN custom_meals[m].items :
                from_model(m).items[i].food_id = f =>
                  /\ from_model(m).items[i].food_name # custom_foods[f].name
                  /\ from_model(m).items[i].is_deleted

\* C17: in the list a search returns, every custom-sourced result comes
\* before every external (usda) result, for every query and every limit,
\* whether the list was computed or came from the cache.
C17_CustomFirst ==
    last.op = "search" =>
        \A i, j \in DOMAIN last.results :
            /\ last.results[i].source = "custom"
            /\ last.results[j].source = "usda"
            => i < j

\* A search has returned results of both sources.
C17_Witness ==
    /\ last.op = "search"
    /\ \E i, j \in DOMAIN last.results :
          /\ last.results[i].source = "custom"
          /\ last.results[j].source = "usda"

\* C18: every search returns at most `limit` results, in any sequence of
\* searches, the ones answered from the process-wide cache included.
C18_Limit ==
    last.op = "search" => Len(last.results) <= last.limit

\* A search that misses the cache returns at most `limit` results.
FreshSearchLimit ==
    [][\A q \in Queries, limit \in Limits :
          \A usda \in USDAAnswers(limit),
             custom_list \in OrderedByName(SearchCustomFoods("u1", q)) :
             /\ Search("u1", q, limit, custom_list, usda)
             /\ cache' # cache
             => Len(last'.results) <= limit]_vars

\* The row `id` of `table` belongs to another user than u.
Foreign(table, id, u) == id \in DOMAIN table /\ table[id].user_id # u

\* The step answers NotFound, changes no table, and is also a step of the same
\* request naming an id that no row has.
Merged(same_request_of_no_row) ==
    /\ last'.status = "NotFound"
    /\ UNCHANGED <<users, categories, diary_entries, food_items, custom_foods,
                   custom_meals, daily_goals>>
    /\ same_request_of_no_row

C19_Categories ==
    \A c \in FirstCategoryIds : Foreign(categories, c, "u1") =>
        /\ UpdateCategory("u1", c, Some("Brunch"), None)
              => Merged(UpdateCategory("u1", 0, Some("Brunch"), None))
        /\ DeleteCategory("u1", c) => Merged(DeleteCategory("u1", 0))
        /\ \A e \in KnownEntryIds :
              GetEntry("u1", e) /\ UpdateEntry("u1", e, Some(2000), Some(c))
                 => Merged(UpdateEntry("u1", e, Some(2000), Some(0)))
        /\ \A m \in KnownMealIds :
              GetCustomMeal("u1", m) /\ AddMealToDiary("u1", 0, m, c)
                 => Merged(AddMealToDiary("u1", 0, m, 0))

C19_Entries ==
    \A e \in KnownEntryIds : Foreign(diary_entries, e, "u1") =>
        /\ \A c \in Optional(FirstCategoryIds) :
              UpdateEntry("u1", e, Some(2000), c)
                 => Merged(UpdateEntry("u1", 0, Some(2000), c))
        /\ DeleteEntry("u1", e) => Merged(DeleteEntry("u1", 0))

C19_Foods ==
    \A f \in KnownFoodIds : Foreign(custom_foods, f, "u1") =>
        /\ \A n \in {Some("Bran"), Some(" ")} :
              UpdateCustomFood("u1", f, n, Some(90))
                 => Merged(UpdateCustomFood("u1", 0, n, Some(90)))
        /\ DeleteCustomFood("u1", f) => Merged(DeleteCustomFood("u1", 0))

C19_Meals ==
    \A m \in KnownMealIds : Foreign(custom_meals, m, "u1") =>
        /\ UpdateCustomMeal("u1", m, Some("Shake"), None)
              => Merged(UpdateCustomMeal("u1", 0, Some("Shake"), None))
        /\ DeleteCustomMeal("u1", m) => Merged(DeleteCustomMeal("u1", 0))
        /\ \A c \in FirstCategoryIds :
              AddMealToDiary("u1", 0, m, c)
                 => Merged(AddMealToDiary("u1", 0, 0, c))

\* The get requests, which change nothing: a custom food or a custom meal of
\* another user is found no more than the id that no row has.
C19_Gets ==
    /\ \A f \in KnownFoodIds : Foreign(custom_foods, f, "u1") =>
          GetCustomFood("u1", f) = GetCustomFood("u1", 0)
    /\ \A m \in KnownMealIds : Foreign(custom_meals, m, "u1") =>
          /\ GetCustomMealStatus("u1", m) = "NotFound"
          /\ GetCustomMealStatus("u1", m) = GetCustomMealStatus("u1", 0)

\* C19: ownership and existence are merged.  A request of update_category,
\* delete_category, update_entry, delete_entry, custom-food get, update and
\* delete, custom-meal get, update and delete, or add-meal-to-diary that
\* names a row of another user is answered NotFound, exactly as the same
\* request naming an id that no row has, and changes no stored row.
C19_Merged ==
    /\ []C19_Gets
    /\ [][C19_Categories /\ C19_Entries /\ C19_Foods /\ C19_Meals]_vars

\* u1 has just named a row of u2 (an entry, a custom food, a custom meal or
\* a category) and was answered NotFound, while u1 has a meal of its own.
C19_Witness ==
    /\ last.user = "u1"
    /\ last.status = "NotFound"
    /\ last.op \in {"update_entry", "delete_entry", "update_custom_food",
                    "delete_custom_food", "update_custom_meal",
                    "delete_custom_meal", "add_meal_to_diary",
                    "update_category", "delete_category"}
    /\ \E e \in DOMAIN diary_entries : diary_entries[e].user_id = "u2"
    /\ \E f \in DOMAIN custom_foods : custom_foods[f].user_id = "u2"
    /\ \E c \in DOMAIN categories : categories[c].user_id = "u2"

\* No row of any table is owned by u after the step, u has no user row, and
\* the rows of the other users are as before.
AccountGone(u) ==
    /\ login(u)' = "Unauthorized"
    /\ ~get_current_user(u)'
    /\ users' = users \ {u}
    /\ \A c \in DOMAIN categories' : categories'[c].user_id # u
    /\ \A f \in DOMAIN custom_foods' : custom_foods'[f].user_id # u
    /\ \A m \in DOMAIN custom_meals' : custom_meals'[m].user_id # u
    /\ \A e \in DOMAIN diary_entries' : diary_entries'[e].user_id # u
    /\ u \notin DOMAIN daily_goals'
    /\ categories' = NotOwnedBy(categories, u)
    /\ custom_foods' = NotOwnedBy(custom_foods, u)
    /\ custom_meals' = NotOwnedBy(custom_meals, u)
    /\ diary_entries' = NotOwnedBy(diary_entries, u)
    /\ \A g \in DOMAIN daily_goals \ {u} :
          g \in DOMAIN daily_goals' /\ daily_goals'[g] = daily_goals[g]
    /\ food_items' = food_items

\* C20: from any reachable state delete_account succeeds, and afterwards no
\* category, custom food, custom meal with its items, diary entry or daily
\* goal of that user remains, the user can neither log in nor use an access
\* token issued before, and the rows of the other users are unchanged.
C20_DeleteAccount ==
    [][\A u \in Users :
          DeleteAccount(u) => last'.status = "Ok" /\ AccountGone(u)]_vars

\* An account without diary entries and without inline foods is deleted with
\* everything it owns.
DeleteAccountUnblocked ==
    [][\A u \in Users :
          DeleteAccount(u) /\ ~DeleteBlocked(u)
             => last'.status = "Ok" /\ AccountGone(u)]_vars

\* delete_account was refused for a user who has a goal, a custom food and a
\* diary entry, beside another account.
C20_Witness ==
    /\ last.op = "delete_account"
    /\ last.status = "ServerError"
    /\ last.user \in DOMAIN daily_goals
    /\ \E f \in DOMAIN custom_foods : custom_foods[f].user_id = last.user
    /\ \E e \in DOMAIN diary_entries : diary_entries[e].user_id = last.user
    /\ users = Users

\* An account with a goal row was deleted while the other account has rows.
AccountDeleted ==
    /\ last.op = "delete_account"
    /\ last.status = "Ok"
    /\ last.user \notin users
    /\ DOMAIN daily_goals # {}
    /\ DOMAIN custom_foods # {}

\* C21: when the call to the external nutrition API fails, search does not
\* fail: it answers with the caller's matching custom foods (maybe none), cut
\* to `limit`.
C21_ApiFailure ==
    [][last'.op = "search" /\ last'.error_logged /\ now' = now =>
          \A q \in Queries, limit \in Limits :
             \A custom_list \in OrderedByName(SearchCustomFoods("u1", q)) :
                Search("u1", q, limit, custom_list, None)
                => /\ last'.status = "Ok"
                   /\ Len(last'.results)
                        = (IF Len(custom_list) < limit THEN Len(custom_list)
                           ELSE limit)
                   /\ \A i \in DOMAIN last'.results :
                         /\ last'.results[i].source = "custom"
                         /\ last'.results[i].id = <<"custom", custom_list[i]>>
                         /\ custom_foods[custom_list[i]].user_id = "u1"]_vars

\* A search whose USDA request failed has just answered with custom foods,
\* fewer than the caller's matches because of the limit.
C21_Witness ==
    /\ last.op = "search"
    /\ last.error_logged
    /\ Len(last.results) = last.limit
    /\ Cardinality({f \in DOMAIN custom_foods : custom_foods[f].name = "Oats"})
          > last.limit

\* C22: once refresh_tokens has succeeded with a refresh token, the service
\* rejects that same token as unauthorized from then on.
C22_Rotation ==
    [][\A R \in tokens :
          RefreshTokens(R) /\ last'.status = "Ok"
          => refresh_tokens(R)' = "Unauthorized"]_vars
\* A refresh that succeeded with a token the service still accepts.
C22_Witness ==
    /\ last.op = "refresh" /\ last.status = "Ok"
    /\ \E R \in tokens : R.sub = last.user /\ refresh_tokens(R) = "Ok"

\* C23: reorder_categories changes nothing but the display_order of the
\* caller's own categories: the set of categories, their names, owners and
\* is_default flags, the other users' categories and every diary entry stay as
\* they were; a rejected reorder leaves every display_order as it was too.
C23_ReorderFrame ==
    [][\A ids \in ReorderLists("u1") :
          ReorderCategories("u1", ids) =>
            /\ DOMAIN categories' = DOMAIN categories
            /\ \A c \in DOMAIN categories :
                  /\ categories'[c].user_id = categories[c].user_id
                  /\ categories'[c].name = categories[c].name
                  /\ categories'[c].is_default = categories[c].is_default
                  /\ categories[c].user_id # "u1" => categories'[c] = categories[c]
            /\ diary_entries' = diary_entries
            /\ last'.status # "Ok" => categories' = categories
       ]_vars
\* An accepted reorder that moved Dinner to the front, in an account with a
\* diary entry, beside another user's categories and entry.
C23_Witness ==
    /\ last = Response("reorder_categories", "u1", "Ok")
    /\ \E c \in CategoriesOf(categories, "u1") :
          categories[c].name = "Dinner" /\ categories[c].display_order < 3
    /\ \E e \in DOMAIN diary_entries : diary_entries[e].user_id = "u1"
    /\ \E e \in DOMAIN diary_entries : diary_entries[e].user_id = "u2"

\* The listing of get_diary: each category of the user once, in ascending
\* display_order, and every entry of the user and date under exactly one of
\* them.
DiaryListing(u, d) ==
    LET listed == get_diary_categories(u, d) IN
    /\ \A c \in UserCategoryIds(u) :
          Cardinality({i \in DOMAIN listed : listed[i].id = c}) = 1
    /\ \A i \in DOMAIN listed : listed[i].id \in UserCategoryIds(u)
    /\ \A i, j \in DOMAIN listed :
          i < j => listed[i].display_order <= listed[j].display_order
    /\ \A e \in DiaryEntriesOf(u, d) :
          Cardinality({i \in DOMAIN listed : e \in listed[i].entries}) = 1

\* The totals of get_diary are those the code computes over the entries listed.
TotalsOfListed(u, d) ==
    LET listed == get_diary_categories(u, d) IN
    get_diary_totals(u, d).calories
        = calculate_daily_totals(
             UNION {listed[i].entries : i \in DOMAIN listed}).calories

DiaryListed ==
    \A u \in users, d \in EntryDates : DiaryListing(u, d) /\ TotalsOfListed(u, d)

\* C24: get_diary lists each category of the user once in ascending
\* display_order, every entry of the user and date under exactly one listed
\* category, and its totals are the sum of the macros of exactly the entries
\* listed.
C24_Diary ==
    \A u \in users, d \in EntryDates :
        LET listed == get_diary_categories(u, d)
            shown == UNION {listed[i].entries : i \in DOMAIN listed}
            sum == SumMacros({e \in shown :
                       diary_entries[e].food_id
                          \in DOMAIN custom_foods \cup DOMAIN food_items})
        IN  /\ DiaryListing(u, d)
            /\ get_diary_totals(u, d) =
                  [calories  |-> sum.calories,
                   protein_g |-> FromRatio(sum.protein_g, 10000),
                   carbs_g   |-> FromRatio(sum.carbs_g, 10000),
                   fat_g     |-> FromRatio(sum.fat_g, 10000)]
\* A diary that lists two entries of one day and counts calories.
C24_Witness ==
    \E d \in EntryDates :
        LET listed == get_diary_categories("u1", d) IN
        /\ Len(listed) = 3
        /\ Cardinality(UNION {listed[i].entries : i \in DOMAIN listed}) > 1
        /\ get_diary_totals("u1", d).calories > 0

\* C25: a create_custom_meal or update_custom_meal request that fails
\* validation leaves the stored state as it was: a failed create leaves no
\* meal and no items, a failed update leaves the meal's name and items.
C25_AllOrNothing ==
    [][/\ last'.op \in {"create_custom_meal", "update_custom_meal"}
       /\ last'.status = "InvalidInput"
       => UNCHANGED <<custom_meals, custom_foods, food_items, diary_entries,
                      categories, users, nextId>>]_vars
\* A rejected update of a meal that still has its first name and its two
\* items, one of them for a food that was deleted since.
C25_Witness ==
    /\ last = Response("update_custom_meal", "u1", "InvalidInput")
    /\ \E m \in DOMAIN custom_meals :
          /\ custom_meals[m].name = "Bowl"
          /\ Len(custom_meals[m].items) = 2
          /\ \E i \in DOMAIN custom_meals[m].items :
                custom_meals[m].items[i].food_id \notin DOMAIN custom_foods

\* C26: update_entry with a valid new quantity and a category that is not
\* the caller's answers NotFound and leaves the entry's quantity and category
\* as they were; no update_entry changes an entry's user, food or date.
C26_UpdateEntry ==
    [][/\ \A e \in KnownEntryIds, c \in FirstCategoryIds :
             /\ UpdateEntry("u1", e, Some(2000), Some(c))
             /\ GetEntry("u1", e)
             /\ ~GetCategory("u1", c)
             => /\ last'.status = "NotFound"
                /\ diary_entries' = diary_entries
       /\ last'.op = "update_entry" =>
             /\ DOMAIN diary_entries' = DOMAIN diary_entries
             /\ \A e \in DOMAIN diary_entries :
                   /\ diary_entries'[e].user_id = diary_entries[e].user_id
                   /\ diary_entries'[e].food_id = diary_entries[e].food_id
                   /\ diary_entries'[e].entry_date = diary_entries[e].entry_date
      ]_vars
\* An update answered NotFound while the caller has an entry with its first
\* quantity, and another user has categories.
C26_Witness ==
    /\ last = Response("update_entry", "u1", "NotFound")
    /\ \E e \in DOMAIN diary_entries :
          /\ diary_entries[e].user_id = "u1"
          /\ diary_entries[e].quantity = 100
    /\ \E c \in DOMAIN categories : categories[c].user_id = "u2"

\* C27: a diary-add request with an inline food that add_entry rejects leaves
\* the food items as they were.
C27_NoOrphanFood ==
    [][last'.op = "add_entry" /\ last'.status # "Ok"
       => food_items' = food_items]_vars
\* A rejected diary-add request after which a food item exists that no diary
\* entry names.
C27_Witness ==
    /\ last = Response("add_entry", "u1", "NotFound")
    /\ \E f \in DOMAIN food_items :
          /\ food_items[f].created_by_user_id = "u1"
          /\ \A e \in DOMAIN diary_entries : diary_entries[e].food_id # f

\* C28: whatever add_entry and update_entry requests run beside a
\* delete_category request, deleting the category removes no committed diary
\* entry and leaves no entry whose category is missing.
C28_DeleteRace ==
    [][\A t \in pending :
          CommitDeleteCategory(t) =>
             /\ diary_entries' = diary_entries
             /\ \A e \in DOMAIN diary_entries' :
                   diary_entries'[e].category_id \in DOMAIN categories'
      ]_vars
\* A category deleted together with an entry: the entry's id was handed out,
\* no entry is left, and the last request was the deletion.
C28_Witness ==
    /\ last = Response("delete_category", "u1", "Ok")
    /\ nextId.entry > 0
    /\ diary_entries = <<>>

C30_Isolation ==
    [][\A b \in Users, q \in {"oat", "OAT"}, limit \in Limits :
          \A usda \in {None, Some(1)},
             custom_list \in OrderedByName(SearchCustomFoods(b, q)) :
             Search(b, q, limit, custom_list, usda) =>
                LET own == {i \in DOMAIN last'.results :
                               /\ last'.results[i].source = "custom"
                               /\ custom_foods[last'.results[i].id[2]].user_id = b}
                    custom == {i \in DOMAIN last'.results :
                                  last'.results[i].source = "custom"}
                    key == <<LowerQuery(q), limit>>
                    foreign ==
                        /\ key \in DOMAIN cache
                        /\ \E i \in DOMAIN cache[key].results :
                              /\ cache[key].results[i].source = "custom"
                              /\ custom_foods[cache[key].results[i].id[2]].user_id # b
                IN  /\ custom = own
                    /\ foreign =>
                          \/ Cardinality(own) >= limit
                          \/ Cardinality(own) = Len(custom_list)
      ]_vars
\* A search answered with a custom food that is not the caller's.
C30_Witness ==
    /\ last.op = "search"
    /\ \E i \in DOMAIN last.results :
          /\ last.results[i].source = "custom"
          /\ custom_foods[last.results[i].id[2]].user_id # last.user

\* C10: a deleted meal stays deleted; it is in neither the list nor the get
\* of its owner; an update that the request schema accepts, a delete and an
\* add-meal-to-diary on it are NotFound; and the deletion leaves the diary
\* entries and the foods, which are all that the totals of get_diary read, as
\* they are, as does every later request on meals.
C10_DeletedMeal ==
    /\ [](\A m \in DOMAIN custom_meals :
             custom_meals[m].is_deleted =>
               /\ m \notin GetCustomMeals(custom_meals[m].user_id)
               /\ GetCustomMealStatus(custom_meals[m].user_id, m) = "NotFound")
    /\ [][/\ \A m \in DOMAIN custom_meals :
               custom_meals[m].is_deleted =>
                 /\ m \in DOMAIN custom_meals'
                 /\ custom_meals'[m].is_deleted
                 /\ \A n \in Optional({"Shake"}), items \in Optional(MealItemLists) :
                       UpdateCustomMeal("u1", m, n, items) =>
                         last'.status = "NotFound"
                 /\ DeleteCustomMeal("u1", m) => last'.status = "NotFound"
                 /\ \A c \in KnownCategoryIds :
                       AddMealToDiary("u1", 0, m, c) =>
                         last'.status = "NotFound" /\ diary_entries' = diary_entries
          /\ \A m \in KnownMealIds :
               DeleteCustomMeal("u1", m) =>
                 /\ diary_entries' = diary_entries
                 /\ custom_foods' = custom_foods
                 /\ food_items' = food_items
          /\ \A e \in DOMAIN diary_entries :
               e \in DOMAIN diary_entries' /\ diary_entries'[e] = diary_entries[e]
         ]_vars

\* A meal was added to the diary and then deleted; adding it again was
\* NotFound, and the entries it made are in the totals.
C10_Witness ==
    /\ last = Response("add_meal_to_diary", "u1", "NotFound")
    /\ \E m \in DOMAIN custom_meals : custom_meals[m].is_deleted
    /\ GetCustomMeals("u1") = {}
    /\ Cardinality(DOMAIN diary_entries) = 2
    /\ get_diary_totals("u1", 0).calories > 0

====
